---- MODULE Spec2Model ----
(***************************************************************************)
(* Version-gated wire codec of the fluvio protocol derive macros:          *)
(*   - the value-expression resolver (util.rs, get_expr_value) and the     *)
(*     rendering of a resolved bound (prop.rs, prop_attrs_type_value);     *)
(*   - the field attributes (PropAttrs::from_ast) and the bound assertion  *)
(*     generated for each field (validate_versions_tokens);                *)
(*   - the gate generated around each field's encode/decode                *)
(*     (NamedProp::version_check_token_stream), applied to the structures  *)
(*     of kf_code_gen/fetch.rs;                                            *)
(*   - the cluster checker (cluster/src/check/mod.rs): its builders, its   *)
(*     runs with and without fixes and progress channel, and the load      *)
(*     balancer check.                                                     *)
(* Strings are sequences of one-character strings, integer literals are    *)
(* sequences of decimal digits, token streams are sequences of tokens.     *)
(***************************************************************************)
EXTENDS Integers, Sequences, FiniteSets, TLC

VARIABLES
    rExpr,      \* resolver: the Option<Expr> handed to get_expr_value
    rResult,    \* resolver: its syn::Result<PropAttrsType> (or a panic)
    rTokens,    \* resolver: the TokenStream rendered from the resolved value
    sDecl,      \* field declaration: the attributes handed to PropAttrs::from_ast
    sAttrs,     \* field declaration: the syn::Result<PropAttrs> of from_ast
    sCheck,     \* field declaration: outcome of the generated bound assertion
    cSchema,    \* codec: the fields of the structure, in declaration order
    cTrace,     \* codec: whether the structure was derived with trace
    eValue,     \* encode: the structure value encoded last
    eVersion,   \* encode: the version it was encoded at
    eBuf,       \* encode: the bytes written
    eSteps,     \* encode: per field, whether it ran and the buffer length around it
    eEvents,    \* encode: the events handed to tracing::trace!, in order
    dSrc,       \* decode: the bytes handed to the call
    dTarget,    \* decode: the structure value decoded into
    dVersion,   \* decode: the version of the last decode
    dFresh,     \* decode: whether the target was a fresh default value
    dPos,       \* decode: the read position reached
    dResult,    \* decode: the result of the call
    dSteps,     \* decode: per field, whether it ran and the read position around it
    dEvents,    \* decode: the events handed to tracing::trace!, in order
    calls,      \* concurrent calls: per call, its direction, inputs and progress
    kAdded,     \* cluster checker: the builder calls made on it, in order
    kChecks,    \* cluster checker: its checks (ClusterChecker::checks)
    kPc,        \* cluster checker: where the run is
    kNext,      \* cluster checker: the check the loop of the run is at
    kPerformed, \* cluster checker: the checks performed, with their outcomes
    kResults,   \* cluster checker: the results collected by the run
    kRun,       \* cluster checker: the method that runs the checks
    kFixes,     \* cluster checker: the calls of the fix function, with their outcomes
    kChannel,   \* progress channel: the results sent and not yet received
    kDelivered, \* progress channel: the results the receiver got, in order
    kReceiver,  \* progress channel: where the receive loop is
    lbPc,       \* load balancer check: where check_load_balancer_status is
    lbUser,     \* load balancer check: the user of the current context
    lbCommands, \* load balancer check: the kubectl commands issued, in order
    lbAttempts, \* load balancer check: the outcomes of retrieve_item, in order
    lbWait,     \* load balancer check: what wait_for_service_exist returned
    lbResult    \* load balancer check: what check_load_balancer_status returned

resolverVars == <<rExpr, rResult, rTokens>>
schemaVars == <<sDecl, sAttrs, sCheck>>
encodeVars == <<eValue, eVersion, eBuf, eSteps, eEvents>>
decodeVars == <<dSrc, dTarget, dVersion, dFresh, dPos, dResult, dSteps, dEvents>>
codecVars == <<cSchema, cTrace, eValue, eVersion, eBuf, eSteps, eEvents,
               dSrc, dTarget, dVersion, dFresh, dPos, dResult, dSteps, dEvents>>

concurrentVars == <<calls>>
progressVars == <<kChannel, kDelivered, kReceiver>>
serviceVars == <<lbPc, lbUser, lbCommands, lbAttempts, lbWait, lbResult>>
checkerVars == <<kAdded, kChecks, kPc, kNext, kPerformed, kResults, kRun, kFixes,
                 progressVars, serviceVars>>

vars == <<rExpr, rResult, rTokens, sDecl, sAttrs, sCheck,
          cSchema, cTrace, eValue, eVersion, eBuf, eSteps, eEvents,
          dSrc, dTarget, dVersion, dFresh, dPos, dResult, dSteps, dEvents,
          calls, kAdded, kChecks, kPc, kNext, kPerformed, kResults, kRun, kFixes,
          kChannel, kDelivered, kReceiver,
          lbPc, lbUser, lbCommands, lbAttempts, lbWait, lbResult>>

----------------------------------------------------------------------------
(* Bounds of the model *)

\* longest string literal handed to the resolver
MaxStrLen == 3
\* most key = value items in one field declaration
MaxMetas == 2
\* largest integer literal written as a bound in a field declaration
MaxBoundLit == 2
\* largest constant bound of the gated field of the two-field structures
MaxGateBound == 2

----------------------------------------------------------------------------
(* Integers of the program *)

I16_MAX == 32767
I16_MIN == -32768

\* the versions the fetch request supports
MIN_API_VERSION == 0
MAX_API_VERSION == 10

----------------------------------------------------------------------------
(* Text *)

Letters == {"t", "e", "s", "T", "E", "S", "c", "f", "N", "G"}
DigitChars == {"0", "1", "2", "3", "4", "5", "6", "7", "8", "9"}

\* the string s has the character c
Contains(s, c) == \E i \in 1..Len(s) : s[i] = c

\* str::strip_suffix("()"): the string without the suffix, or None
NoString == <<"<none>">>
\* (variant: the suffix is found and not stripped)
StripSuffixCall_kept(s) ==
    IF Len(s) >= 2 /\ s[Len(s) - 1] = "(" /\ s[Len(s)] = ")"
    THEN s
    ELSE NoString
StripSuffixCall(s) ==
    IF Len(s) >= 2 /\ s[Len(s) - 1] = "(" /\ s[Len(s)] = ")"
    THEN SubSeq(s, 1, Len(s) - 2)
    ELSE NoString

\* what proc_macro2 accepts as an identifier; Ident::new panics on the rest
IsIdent(s) ==
    /\ Len(s) >= 1
    /\ s[1] \in Letters
    /\ \A i \in 2..Len(s) : s[i] \in Letters \cup DigitChars

\* value of a sequence of decimal digits
RECURSIVE Base10Value(_)
Base10Value(digits) ==
    IF digits = <<>> THEN 0
    ELSE 10 * Base10Value(SubSeq(digits, 1, Len(digits) - 1)) + digits[Len(digits)]

\* decimal digits of a natural number, as format!("{}") writes them
RECURSIVE Base10Digits(_)
Base10Digits(n) ==
    IF n < 10 THEN <<n>> ELSE Append(Base10Digits(n \div 10), n % 10)

----------------------------------------------------------------------------
(* Expressions (syn::Expr) and resolved values (PropAttrsType) *)

NoExpr == [kind |-> "None"]
LitInt(digits) == [kind |-> "LitInt", digits |-> digits]
LitStr(value) == [kind |-> "LitStr", value |-> value]
LitOther == [kind |-> "LitOther"]
Unary(op, expr) == [kind |-> "Unary", op |-> op, expr |-> expr]
Path(segments) == [kind |-> "Path", segments |-> segments]
OtherExpr == [kind |-> "Other"]

PropInt(n) == [kind |-> "Int", value |-> n]
PropLit(ident) == [kind |-> "Lit", ident |-> ident]
PropFn(ident) == [kind |-> "Fn", ident |-> ident]

Ok(v) == [res |-> "Ok", value |-> v]
Err(msg) == [res |-> "Err", msg |-> msg]
Panic == [res |-> "Panic"]

\* LitInt::base10_parse::<i16>
base10_parse_i16(digits) ==
    IF Base10Value(digits) <= I16_MAX
    THEN Ok(Base10Value(digits))
    ELSE Err("number too large to fit in target type")

\* syn::Ident::new(value, span) wrapped by a constructor of PropAttrsType
IdentNew(ctor, value) ==
    IF IsIdent(value)
    THEN Ok([kind |-> ctor, ident |-> value])
    ELSE Panic

\* get_expr_value, the arm Some(Expr::Lit(lit_expr))
get_expr_value_lit(field) ==
    IF field.kind = "LitInt"
    THEN LET p == base10_parse_i16(field.digits)
         IN  IF p.res = "Ok" THEN Ok(PropInt(p.value)) ELSE p
    ELSE IF field.kind = "LitStr"
    THEN IF /\ Contains(field.value, "(")
            /\ Contains(field.value, ")")
            /\ StripSuffixCall(field.value) # NoString
         THEN IdentNew("Fn", StripSuffixCall(field.value))
         ELSE IdentNew("Lit", field.value)
    ELSE Err("Expected attribute to be a LitStr or LitInt")

\* get_expr_value, the arm Some(Expr::Unary(ExprUnary { expr, .. }))
get_expr_value_unary(field) ==
    IF field.expr.kind = "LitInt"
    THEN LET p == base10_parse_i16(field.expr.digits)
         IN  IF p.res = "Ok" THEN Ok(PropInt(p.value)) ELSE p
    ELSE Err("Expected attribute to be valid Int")

\* get_expr_value, the arm Some(Expr::Path(ExprPath { path, .. }))
get_expr_value_path(field) ==
    IF Len(field.segments) = 1
    THEN Ok(PropLit(field.segments[1]))
    ELSE Err("Attribute needs to be a valid Path")

get_expr_value(field) ==
    CASE field.kind \in {"LitInt", "LitStr", "LitOther"} -> get_expr_value_lit(field)
      [] field.kind = "Unary" -> get_expr_value_unary(field)
      [] field.kind = "Path" -> get_expr_value_path(field)
      [] OTHER -> Err("Expected attribute to be a Lit/Path/Unary")

(* Tokens (proc_macro2::TokenStream) *)

LiteralTok(digits, suffix) == [tok |-> "Literal", digits |-> digits, suffix |-> suffix]
IdentTok(ident) == [tok |-> "Ident", ident |-> ident]
PunctTok(ch) == [tok |-> "Punct", ch |-> ch]
ParenGroupTok == [tok |-> "Group"]

\* TokenStream::from_str(&format!("{}_i16", data)): a negative number is
\* the punctuation `-` followed by the literal
IntTokens(n) ==
    IF n < 0
    THEN <<PunctTok("-"), LiteralTok(Base10Digits(-n), "i16")>>
    ELSE <<LiteralTok(Base10Digits(n), "i16")>>

\* (variant: a bound that is not declared renders as 1_i16)
prop_attrs_type_value_one(attrs_type) ==
    CASE attrs_type.kind = "Lit" -> <<IdentTok(attrs_type.ident)>>
      [] attrs_type.kind = "Fn" -> <<IdentTok(attrs_type.ident), ParenGroupTok>>
      [] attrs_type.kind = "Int" -> IntTokens(attrs_type.value)
      [] OTHER -> <<LiteralTok(<<1>>, "i16")>>

\* attrs_type is a PropAttrsType, or NoExpr for Option::None
prop_attrs_type_value(attrs_type) ==
    CASE attrs_type.kind = "Lit" -> <<IdentTok(attrs_type.ident)>>
      [] attrs_type.kind = "Fn" -> <<IdentTok(attrs_type.ident), ParenGroupTok>>
      [] attrs_type.kind = "Int" -> IntTokens(attrs_type.value)
      [] OTHER -> <<LiteralTok(<<0>>, "i16")>>

----------------------------------------------------------------------------
(* The resolver as a state machine: an expression is resolved, and the     *)
(* resolved value is rendered.                                             *)

Alphabet == {"t", "(", ")", "1"}

Strings == UNION {[1..n -> Alphabet] : n \in 0..MaxStrLen}

IntLits == {<<0>>, <<1>>, <<4>>, <<0, 4>>, <<1, 0>>, <<3, 2, 7, 6, 7>>, <<3, 2, 7, 6, 8>>}

UnOps == {"Neg", "Not", "Deref"}

Idents == {<<"t">>, <<"t", "e", "s", "t">>}

AtomExprs ==
    {LitInt(d) : d \in IntLits} \cup {LitStr(s) : s \in Strings}
        \cup {LitOther, OtherExpr}
        \cup {Path(<<i>>) : i \in Idents} \cup {Path(<<i, j>>) : i, j \in Idents}

UnaryExprs == {Unary(op, e) : op \in UnOps, e \in AtomExprs}

Exprs ==
    {NoExpr} \cup AtomExprs \cup UnaryExprs
        \cup {Unary(op, e) : op \in UnOps, e \in {Unary("Neg", LitInt(<<1>>))}}

NotYet == [res |-> "NotYet"]

ResolverIdle ==
    /\ rExpr = NoExpr
    /\ rResult = NotYet
    /\ rTokens = <<>>

SchemaIdle ==
    /\ sDecl = [varint |-> FALSE, metas |-> <<>>, split |-> 0]
    /\ sAttrs = NotYet
    /\ sCheck = NotYet

CodecIdle ==
    /\ cSchema = <<>>
    /\ cTrace = FALSE
    /\ eValue = <<>>
    /\ eVersion = 0
    /\ eBuf = <<>>
    /\ eSteps = <<>>
    /\ eEvents = <<>>
    /\ dSrc = <<>>
    /\ dTarget = <<>>
    /\ dVersion = 0
    /\ dFresh = TRUE
    /\ dPos = 0
    /\ dResult = NotYet
    /\ dSteps = <<>>
    /\ dEvents = <<>>

\* no encode or decode call is running
ConcurrentIdle == calls = <<>>

\* no cluster checker was built
CheckerIdle ==
    /\ kAdded = <<>>
    /\ kChecks = <<>>
    /\ kPc = "building"
    /\ kNext = 0
    /\ kPerformed = <<>>
    /\ kResults = <<>>
    /\ kRun = "none"
    /\ kFixes = <<>>
    /\ kChannel = <<>>
    /\ kDelivered = <<>>
    /\ kReceiver = "none"
    /\ lbPc = "idle"
    /\ lbUser = "none"
    /\ lbCommands = <<>>
    /\ lbAttempts = <<>>
    /\ lbWait = NotYet
    /\ lbResult = NotYet

ResolverInit == ResolverIdle /\ SchemaIdle /\ CodecIdle /\ ConcurrentIdle /\ CheckerIdle

GetExprValue ==
    \E e \in Exprs :
        /\ rExpr' = e
        /\ rResult' = get_expr_value(e)
        /\ rTokens' = <<>>
        /\ UNCHANGED <<schemaVars, codecVars, concurrentVars, checkerVars>>

PropAttrsTypeValue ==
    /\ rResult.res = "Ok"
    /\ rTokens = <<>>
    /\ rTokens' = prop_attrs_type_value(rResult.value)
    /\ UNCHANGED <<rExpr, rResult>>
    /\ UNCHANGED <<schemaVars, codecVars, concurrentVars, checkerVars>>

ResolverNext == GetExprValue \/ PropAttrsTypeValue

SpecResolver == ResolverInit /\ [][ResolverNext]_vars

Spec == SpecResolver

----------------------------------------------------------------------------
(* Field attributes: PropAttrs::from_ast over the items of the             *)
(* #[fluvio(...)] attributes of one field, in order.                       *)

Meta(key, value) == [key |-> key, value |-> value]

\* PropAttrs::default()
PropAttrsDefault ==
    [varint |-> FALSE, min_version |-> NoExpr, max_version |-> NoExpr,
     default_value |-> NoExpr, ignorable |-> NoExpr]

\* get_lit_str
get_lit_str(value) ==
    IF value.kind = "LitStr" THEN Ok(value.value)
    ELSE IF value.kind \in {"LitInt", "LitOther"}
    THEN Err("Expected attribute to be a string")
    ELSE Err("Expected attribute to be a Lit")

\* (variant: a key given again replaces the value set before)
parse_nested_meta_overwriting(prop_attrs, meta) ==
    CASE meta.key \in {"min_version", "max_version"} ->
            LET value == get_expr_value(meta.value)
            IN  IF value.res # "Ok" THEN value
                ELSE IF meta.key = "min_version"
                THEN Ok([prop_attrs EXCEPT !.min_version = value.value])
                ELSE Ok([prop_attrs EXCEPT !.max_version = value.value])
      [] meta.key = "default" ->
            LET value == get_lit_str(meta.value)
            IN  IF value.res = "Ok"
                THEN Ok([prop_attrs EXCEPT !.default_value = LitStr(value.value)])
                ELSE value
      [] meta.key = "ignorable" ->
            Ok([prop_attrs EXCEPT !.ignorable = [kind |-> "Some", value |-> TRUE]])
      [] OTHER -> Err("unrecognized fluvio attribute")

\* one closure call of parse_attributes!: the match on the key, with the
\* blocks of from_ast; prop_attrs is the value built so far
parse_nested_meta(prop_attrs, meta) ==
    CASE meta.key = "min_version" /\ prop_attrs.min_version = NoExpr ->
            LET value == get_expr_value(meta.value)
            IN  IF value.res = "Ok"
                THEN Ok([prop_attrs EXCEPT !.min_version = value.value])
                ELSE value
      [] meta.key = "min_version" -> Err("fluvio attribute already specified")
      [] meta.key = "max_version" /\ prop_attrs.max_version = NoExpr ->
            LET value == get_expr_value(meta.value)
            IN  IF value.res = "Ok"
                THEN Ok([prop_attrs EXCEPT !.max_version = value.value])
                ELSE value
      [] meta.key = "max_version" -> Err("fluvio attribute already specified")
      [] meta.key = "default" /\ prop_attrs.default_value = NoExpr ->
            LET value == get_lit_str(meta.value)
            IN  IF value.res = "Ok"
                THEN Ok([prop_attrs EXCEPT !.default_value = LitStr(value.value)])
                ELSE value
      [] meta.key = "default" -> Err("fluvio attribute already specified")
      [] meta.key = "ignorable" /\ prop_attrs.ignorable = NoExpr ->
            Ok([prop_attrs EXCEPT !.ignorable = [kind |-> "Some", value |-> TRUE]])
      [] meta.key = "ignorable" -> Err("fluvio attribute already specified")
      [] OTHER -> Err("unrecognized fluvio attribute")

\* attr.parse_nested_meta over the items of one #[fluvio(...)] attribute:
\* the first failure ends it
RECURSIVE parse_attributes(_, _)
parse_attributes(prop_attrs, metas) ==
    IF metas = <<>> THEN Ok(prop_attrs)
    ELSE LET r == parse_nested_meta(prop_attrs, Head(metas))
         IN  IF r.res = "Ok" THEN parse_attributes(r.value, Tail(metas)) ELSE r

\* PropAttrs::from_ast: the loop of parse_attributes! over the #[fluvio(...)]
\* attributes of the field, into one prop_attrs; the declaration holds its
\* items in order, the first decl.split of them in a first attribute and
\* the others in a second one; a failure in an attribute ends the loop
\* (the `?`)
from_ast(decl) ==
    LET first == parse_attributes([PropAttrsDefault EXCEPT !.varint = decl.varint],
                                  SubSeq(decl.metas, 1, decl.split))
    IN  IF first.res = "Ok"
        THEN parse_attributes(first.value,
                              SubSeq(decl.metas, decl.split + 1, Len(decl.metas)))
        ELSE first

(* The assertion generated for a field, and its evaluation by the compiler *)

\* the constants and const functions in scope of the derive (the examples
\* of the documentation of PropAttrsType)
TEST == <<"T", "E", "S", "T">>
test == <<"t", "e", "s", "t">>
\* a further constant in scope, of negative value: `const NEG: i16 = -1;`
NEG == <<"N", "E", "G">>
ConstValue(ident) ==
    IF ident = TEST THEN Ok(1)
    ELSE IF ident = NEG THEN Ok(-1)
    ELSE Err("cannot find value in this scope")
FnValue(ident) == IF ident = test THEN Ok(1) ELSE Err("cannot find function in this scope")

\* the value of the expression a rendered bound is
EvalTokens(tokens) ==
    CASE Len(tokens) = 1 /\ tokens[1].tok = "Literal" -> Ok(Base10Value(tokens[1].digits))
      [] Len(tokens) = 2 /\ tokens[1].tok = "Punct" /\ tokens[2].tok = "Literal" ->
            Ok(0 - Base10Value(tokens[2].digits))
      [] Len(tokens) = 1 /\ tokens[1].tok = "Ident" -> ConstValue(tokens[1].ident)
      [] Len(tokens) = 2 /\ tokens[1].tok = "Ident" /\ tokens[2].tok = "Group" ->
            FnValue(tokens[1].ident)
      [] OTHER -> Err("expected expression")

\* validate_versions_tokens: the `const _: () = assert!(...)` item
validate_versions_tokens(min_prop, max_props, field) ==
    LET min == prop_attrs_type_value(min_prop)
        max == prop_attrs_type_value(max_props)
    IN  IF max_props # NoExpr
        THEN [assert |-> "!(min > max)", min |-> min, max |-> max,
              message |-> "max version is less than min version", field |-> field]
        ELSE [assert |-> "!(min < 0)", min |-> min, max |-> max,
              message |-> "min version must be positive", field |-> field]

\* the compiler's evaluation of the assertion item
ConstAssert(item) ==
    LET min == EvalTokens(item.min)
        max == EvalTokens(item.max)
    IN  IF item.assert = "!(min > max)"
        THEN IF min.res # "Ok" THEN min
             ELSE IF max.res # "Ok" THEN max
             ELSE IF ~(min.value > max.value) THEN Ok("compiled")
             ELSE Err(item.message)
        ELSE IF min.res # "Ok" THEN min
             ELSE IF ~(min.value < 0) THEN Ok("compiled")
             ELSE Err(item.message)

(* The declarations the model builds fields from *)

BoundLits == {Base10Digits(n) : n \in 0..MaxBoundLit}

BoundExprs ==
    {LitInt(d) : d \in BoundLits} \cup {Unary("Neg", LitInt(d)) : d \in BoundLits}
        \cup {LitStr(TEST), LitStr(test \o <<"(", ")">>), Path(<<TEST>>), LitOther, NoExpr}
        \cup {LitStr(<<"f", "(", ")">>), LitStr(NEG)}

DefaultExprs == {LitStr(<<"-", "1">>), LitInt(<<1>>)}

Metas ==
    {Meta(k, e) : k \in {"min_version", "max_version"}, e \in BoundExprs}
        \cup {Meta("default", e) : e \in DefaultExprs}
        \cup {Meta("ignorable", NoExpr), Meta("unknown", NoExpr)}

\* where the items of a declaration are split into two attributes
Splits(metas) == IF metas = <<>> THEN {0} ELSE 1..Len(metas)

Decls ==
    {d \in [varint : BOOLEAN, split : 0..MaxMetas,
            metas : UNION {[1..n -> Metas] : n \in 0..MaxMetas}] :
        d.split \in Splits(d.metas)}

SchemaInit == ResolverIdle /\ SchemaIdle /\ CodecIdle /\ ConcurrentIdle /\ CheckerIdle

\* the derive reads the attributes of a field, once
FromAst ==
    /\ sAttrs = NotYet
    /\ \E decl \in Decls :
        /\ sDecl' = decl
        /\ sAttrs' = from_ast(decl)
        /\ sCheck' = NotYet
        /\ UNCHANGED <<resolverVars, codecVars, concurrentVars, checkerVars>>

\* NamedProp::version_check_token_stream emits the assertion for the
\* field, and the compiler evaluates it
ValidateVersions ==
    /\ sAttrs.res = "Ok"
    /\ sCheck = NotYet
    /\ sCheck' = ConstAssert(validate_versions_tokens(
                        sAttrs.value.min_version, sAttrs.value.max_version, "field"))
    /\ UNCHANGED <<sDecl, sAttrs>>
    /\ UNCHANGED <<resolverVars, codecVars, concurrentVars, checkerVars>>

SchemaNext == FromAst \/ ValidateVersions

SpecSchema == SchemaInit /\ [][SchemaNext]_vars

----------------------------------------------------------------------------
(* The gate generated around a field's encode or decode *)

\* (variant: the range min..max, without its upper end)
RangeContains_exclusive(min, max, version) == min <= version /\ version < max

\* (min..=max).contains(&version)
RangeInclusiveContains(min, max, version) == min <= version /\ version <= max

\* (variant: a field without max_version is gated by `version > min`)
version_check_above_min(attrs, version) ==
    LET min == EvalTokens(prop_attrs_type_value(attrs.min_version)).value
    IN  IF attrs.max_version # NoExpr
        THEN LET max == EvalTokens(prop_attrs_type_value(attrs.max_version)).value
             IN  RangeInclusiveContains(min, max, version)
        ELSE version > min

\* (variant: a field without max_version is cut off above the largest
\* supported version)
version_check_cut_off(attrs, version) ==
    LET min == EvalTokens(prop_attrs_type_value(attrs.min_version)).value
    IN  IF attrs.max_version # NoExpr
        THEN LET max == EvalTokens(prop_attrs_type_value(attrs.max_version)).value
             IN  RangeInclusiveContains(min, max, version)
        ELSE version >= min /\ version <= MAX_API_VERSION

\* (variant: the gate of a field without max_version is left out)
version_check_ungated(attrs, version) ==
    LET min == EvalTokens(prop_attrs_type_value(attrs.min_version)).value
    IN  IF attrs.max_version # NoExpr
        THEN LET max == EvalTokens(prop_attrs_type_value(attrs.max_version)).value
             IN  RangeInclusiveContains(min, max, version)
        ELSE TRUE

\* (variant: a field marked ignorable is gated by its min_version only)
version_check_ignorable_open(attrs, version) ==
    LET min == EvalTokens(prop_attrs_type_value(attrs.min_version)).value
    IN  IF attrs.max_version # NoExpr /\ attrs.ignorable = NoExpr
        THEN LET max == EvalTokens(prop_attrs_type_value(attrs.max_version)).value
             IN  RangeInclusiveContains(min, max, version)
        ELSE IF attrs.ignorable # NoExpr THEN TRUE
        ELSE version >= min

\* NamedProp::version_check_token_stream: the condition of the generated
\* `if`, with the bounds rendered by prop_attrs_type_value
version_check(attrs, version) ==
    LET min == EvalTokens(prop_attrs_type_value(attrs.min_version)).value
    IN  IF attrs.max_version # NoExpr
        THEN LET max == EvalTokens(prop_attrs_type_value(attrs.max_version)).value
             IN  RangeInclusiveContains(min, max, version)
        ELSE version >= min

\* (variant: the event is emitted whether or not the structure was derived
\* with trace)
version_check_trace_unconditional(field, version, trace) ==
    LET min == EvalTokens(prop_attrs_type_value(field.attrs.min_version)).value
    IN  IF field.attrs.max_version # NoExpr
        THEN LET max == EvalTokens(prop_attrs_type_value(field.attrs.max_version)).value
             IN  <<[field |-> field.name, version |-> version, min |-> min, max |-> max,
                    message |-> "is skipped because version is outside min, max"]>>
        ELSE <<[field |-> field.name, version |-> version, min |-> min,
                message |-> "is skipped because version is less than min"]>>

\* NamedProp::version_check_token_stream: the `else` branch generated after
\* the gate, empty when the structure is derived without trace; the events
\* it hands to tracing::trace!
version_check_trace(field, version, trace) ==
    LET min == EvalTokens(prop_attrs_type_value(field.attrs.min_version)).value
    IN  IF ~trace THEN <<>>
        ELSE IF field.attrs.max_version # NoExpr
        THEN LET max == EvalTokens(prop_attrs_type_value(field.attrs.max_version)).value
             IN  <<[field |-> field.name, version |-> version, min |-> min, max |-> max,
                    message |-> "is skipped because version is outside min, max"]>>
        ELSE <<[field |-> field.name, version |-> version, min |-> min,
                message |-> "is skipped because version is less than min"]>>

(* The gate of a field of a tuple structure *)

\* a field of a tuple structure has no name (UnnamedProp)
NoName == ""

\* (variant: the range of a tuple field leaves out its upper end)
unnamed_version_check_exclusive(attrs, version) ==
    LET min == EvalTokens(prop_attrs_type_value(attrs.min_version)).value
    IN  IF attrs.max_version # NoExpr
        THEN LET max == EvalTokens(prop_attrs_type_value(attrs.max_version)).value
             IN  RangeContains_exclusive(min, max, version)
        ELSE version >= min

\* UnnamedProp::version_check_token_stream: the condition of the generated
\* `if`
unnamed_version_check(attrs, version) ==
    LET min == EvalTokens(prop_attrs_type_value(attrs.min_version)).value
    IN  IF attrs.max_version # NoExpr
        THEN LET max == EvalTokens(prop_attrs_type_value(attrs.max_version)).value
             IN  RangeInclusiveContains(min, max, version)
        ELSE version >= min

\* UnnamedProp::version_check_token_stream: the `else` branch generated
\* after the gate; its event names no field
unnamed_version_check_trace(field, version, trace) ==
    LET min == EvalTokens(prop_attrs_type_value(field.attrs.min_version)).value
    IN  IF ~trace THEN <<>>
        ELSE IF field.attrs.max_version # NoExpr
        THEN LET max == EvalTokens(prop_attrs_type_value(field.attrs.max_version)).value
             IN  <<[version |-> version, min |-> min, max |-> max,
                    message |-> "is skipped because version is outside min, max"]>>
        ELSE <<[version |-> version, min |-> min,
                message |-> "is skipped because version is less than min"]>>

\* the gate of a field: the one of NamedProp for a field with a name, the
\* one of UnnamedProp for a field of a tuple structure
prop_version_check(field, version) ==
    IF field.name = NoName
    THEN unnamed_version_check(field.attrs, version)
    ELSE version_check(field.attrs, version)

prop_version_check_trace(field, version, trace) ==
    IF field.name = NoName
    THEN unnamed_version_check_trace(field, version, trace)
    ELSE version_check_trace(field, version, trace)

----------------------------------------------------------------------------
(* Types, values and their wire form *)

IntTy(width) == [k |-> "int", width |-> width]
IsolationTy == [k |-> "isolation"]
StringTy == [k |-> "string"]
VecTy(elem) == [k |-> "vec", elem |-> elem]
StructTy(fields) == [k |-> "struct", fields |-> fields]
PhantomTy == [k |-> "phantom"]

Field(name, ty, attrs) == [name |-> name, ty |-> ty, attrs |-> attrs]

\* big-endian two's complement of v in width bytes
RECURSIVE ToBytes(_, _)
ToBytes(v, width) ==
    IF width = 0 THEN <<>>
    ELSE Append(ToBytes(v \div 256, width - 1), v % 256)

\* An integer value of a field is Num(n) when it fits three bytes, and
\* Wide(bytes), its two's complement, when it does not (an i64 does not fit
\* the integers of the checker).
Num(n) == [n |-> n]
Wide(bytes) == [wide |-> bytes]
IsNum(value) == DOMAIN value = {"n"}

\* the signed integer a short big-endian byte sequence holds
RECURSIVE SignedValue(_)
SignedValue(bytes) ==
    IF Len(bytes) = 1
    THEN IF bytes[1] >= 128 THEN bytes[1] - 256 ELSE bytes[1]
    ELSE 256 * SignedValue(SubSeq(bytes, 1, Len(bytes) - 1)) + bytes[Len(bytes)]

\* the bytes without the leading bytes that only extend the sign
RECURSIVE Significant(_)
Significant(bytes) ==
    IF /\ Len(bytes) > 1
       /\ \/ bytes[1] = 0 /\ bytes[2] < 128
          \/ bytes[1] = 255 /\ bytes[2] >= 128
    THEN Significant(Tail(bytes))
    ELSE bytes

\* the integer value a big-endian byte sequence holds
FromBytes(bytes) ==
    IF Len(Significant(bytes)) <= 3
    THEN Num(SignedValue(Significant(bytes)))
    ELSE Wide(bytes)

\* the bytes of an integer value
IntBytes(value, width) ==
    IF IsNum(value) THEN ToBytes(value.n, width) ELSE value.wide

\* a decoded length: a wide one is negative or beyond any buffer
LengthOf(value, src) ==
    IF IsNum(value) THEN value.n
    ELSE IF value.wide[1] >= 128 THEN -1 ELSE Len(src) + 1

DigitOf(c) ==
    CASE c = "0" -> 0 [] c = "1" -> 1 [] c = "2" -> 2 [] c = "3" -> 3 [] c = "4" -> 4
      [] c = "5" -> 5 [] c = "6" -> 6 [] c = "7" -> 7 [] c = "8" -> 8 [] c = "9" -> 9

\* the integer a `default = "..."` string is parsed into
ParseDefault(chars) ==
    IF Len(chars) >= 1 /\ chars[1] = "-"
    THEN 0 - Base10Value([i \in 1..(Len(chars) - 1) |-> DigitOf(chars[i + 1])])
    ELSE Base10Value([i \in 1..Len(chars) |-> DigitOf(chars[i])])

\* the value a field of a default structure holds
RECURSIVE DefaultValue(_, _)
DefaultValue(ty, attrs) ==
    CASE ty.k \in {"int", "isolation"} ->
            IF attrs.default_value # NoExpr
            THEN Num(ParseDefault(attrs.default_value.value))
            ELSE Num(0)
      [] ty.k \in {"string", "vec"} -> <<>>
      [] ty.k = "struct" ->
            [i \in 1..Len(ty.fields) |-> DefaultValue(ty.fields[i].ty, ty.fields[i].attrs)]
      [] OTHER -> "PhantomData"

DefaultStruct(fields) == DefaultValue(StructTy(fields), PropAttrsDefault)

\* the result of a codec step that emits no event
NoEvents(buf) == [buf |-> buf, events |-> <<>>]

RECURSIVE EncodeType(_, _, _, _), EncodeFields(_, _, _, _, _, _),
          EncodeElems(_, _, _, _, _)

\* (variant: the bytes of a field are put before the bytes written so far)
EncodeFields_prepending(fields, value, version, trace, i, acc) ==
    IF i > Len(fields) THEN acc
    ELSE LET run == prop_version_check(fields[i], version)
             r == IF run
                  THEN EncodeType(fields[i].ty, value[i], version, trace)
                  ELSE [buf |-> <<>>,
                        events |-> prop_version_check_trace(fields[i], version, trace)]
             buf == r.buf \o acc.buf
             step == [executed |-> run, before |-> Len(acc.buf), after |-> Len(buf),
                      events |-> IF run THEN <<>> ELSE r.events]
         IN  EncodeFields(fields, value, version, trace, i + 1,
                          [buf |-> buf, steps |-> Append(acc.steps, step),
                           events |-> acc.events \o r.events])

\* the derived encode of a structure: its fields in declaration order, each
\* behind its gate; acc is the buffer so far, the record of the fields and
\* the events emitted so far
EncodeFields(fields, value, version, trace, i, acc) ==
    IF i > Len(fields) THEN acc
    ELSE LET run == prop_version_check(fields[i], version)
             r == IF run
                  THEN EncodeType(fields[i].ty, value[i], version, trace)
                  ELSE [buf |-> <<>>,
                        events |-> prop_version_check_trace(fields[i], version, trace)]
             buf == acc.buf \o r.buf
             step == [executed |-> run, before |-> Len(acc.buf), after |-> Len(buf),
                      events |-> IF run THEN <<>> ELSE r.events]
         IN  EncodeFields(fields, value, version, trace, i + 1,
                          [buf |-> buf, steps |-> Append(acc.steps, step),
                           events |-> acc.events \o r.events])

EncodeElems(elem, values, version, trace, i) ==
    IF i > Len(values) THEN NoEvents(<<>>)
    ELSE LET head == EncodeType(elem, values[i], version, trace)
             rest == EncodeElems(elem, values, version, trace, i + 1)
         IN  [buf |-> head.buf \o rest.buf, events |-> head.events \o rest.events]

EncodeType(ty, value, version, trace) ==
    CASE ty.k = "int" -> NoEvents(IntBytes(value, ty.width))
      [] ty.k = "isolation" -> NoEvents(IntBytes(value, 1))
      [] ty.k = "string" -> NoEvents(ToBytes(Len(value), 2) \o value)
      [] ty.k = "vec" ->
            LET elems == EncodeElems(ty.elem, value, version, trace, 1)
            IN  [buf |-> ToBytes(Len(value), 4) \o elems.buf, events |-> elems.events]
      [] ty.k = "struct" ->
            LET r == EncodeFields(ty.fields, value, version, trace, 1,
                                  [buf |-> <<>>, steps |-> <<>>, events |-> <<>>])
            IN  [buf |-> r.buf, events |-> r.events]
      [] OTHER -> NoEvents(<<>>)

EncodeStruct(fields, value, version, trace) ==
    EncodeFields(fields, value, version, trace, 1,
                 [buf |-> <<>>, steps |-> <<>>, events |-> <<>>])

UnexpectedEof == Err("UnexpectedEof")

\* (variant: the bytes missing at the end of the buffer are read as zero)
DecodeInt_padded(src, pos, width) ==
    [ok |-> TRUE,
     value |-> FromBytes([i \in 1..width |->
                            IF pos + i <= Len(src) THEN src[pos + i] ELSE 0]),
     pos |-> pos + width]

\* a fixed-width integer read at pos
DecodeInt(src, pos, width) ==
    IF pos + width > Len(src)
    THEN [ok |-> FALSE, value |-> Num(0), pos |-> pos]
    ELSE [ok |-> TRUE, value |-> FromBytes(SubSeq(src, pos + 1, pos + width)),
          pos |-> pos + width]

RECURSIVE DecodeType(_, _, _, _, _, _), DecodeFields(_, _, _, _, _, _),
          DecodeElems(_, _, _, _, _, _, _)

\* the derived decode of a structure, into the value it is called on: its
\* fields in declaration order, each behind its gate; the first failure ends
\* the call; acc is the value, the position, the record of the fields and
\* the events emitted so far
DecodeFields(fields, src, version, trace, i, acc) ==
    IF i > Len(fields) \/ ~acc.ok THEN acc
    ELSE LET run == prop_version_check(fields[i], version)
             r == IF run
                  THEN DecodeType(fields[i].ty, acc.value[i], src, acc.pos, version, trace)
                  ELSE [ok |-> TRUE, value |-> acc.value[i], pos |-> acc.pos,
                        events |-> prop_version_check_trace(fields[i], version, trace)]
             step == [executed |-> run, before |-> acc.pos, after |-> r.pos,
                      events |-> IF run THEN <<>> ELSE r.events]
         IN  DecodeFields(fields, src, version, trace, i + 1,
                          [ok |-> r.ok,
                           value |-> [acc.value EXCEPT ![i] = r.value],
                           pos |-> r.pos,
                           steps |-> Append(acc.steps, step),
                           events |-> acc.events \o r.events])

\* the elements of a vector, each decoded into a default value
DecodeElems(elem, n, src, version, trace, i, acc) ==
    IF i > n \/ ~acc.ok THEN acc
    ELSE LET r == DecodeType(elem, DefaultValue(elem, PropAttrsDefault),
                             src, acc.pos, version, trace)
         IN  DecodeElems(elem, n, src, version, trace, i + 1,
                         [ok |-> r.ok,
                          value |-> IF r.ok THEN Append(acc.value, r.value) ELSE acc.value,
                          pos |-> r.pos,
                          events |-> acc.events \o r.events])

\* a fixed-width integer decoded into target
DecodeIntInto(target, src, pos, width) ==
    LET r == DecodeInt(src, pos, width)
    IN  [ok |-> r.ok, value |-> IF r.ok THEN r.value ELSE target, pos |-> r.pos,
         events |-> <<>>]

DecodeType(ty, target, src, pos, version, trace) ==
    CASE ty.k = "int" -> DecodeIntInto(target, src, pos, ty.width)
      [] ty.k = "isolation" -> DecodeIntInto(target, src, pos, 1)
      [] ty.k = "string" ->
            LET n == DecodeInt(src, pos, 2)
            IN  IF ~n.ok
                THEN [ok |-> FALSE, value |-> target, pos |-> n.pos, events |-> <<>>]
                ELSE IF LengthOf(n.value, src) <= 0
                THEN [ok |-> TRUE, value |-> <<>>, pos |-> n.pos, events |-> <<>>]
                ELSE IF n.pos + LengthOf(n.value, src) > Len(src)
                THEN [ok |-> FALSE, value |-> target, pos |-> n.pos, events |-> <<>>]
                ELSE [ok |-> TRUE,
                      value |-> SubSeq(src, n.pos + 1, n.pos + LengthOf(n.value, src)),
                      pos |-> n.pos + LengthOf(n.value, src),
                      events |-> <<>>]
      [] ty.k = "vec" ->
            LET n == DecodeInt(src, pos, 4)
            IN  IF ~n.ok
                THEN [ok |-> FALSE, value |-> target, pos |-> n.pos, events |-> <<>>]
                ELSE DecodeElems(ty.elem, LengthOf(n.value, src), src, version, trace, 1,
                                 [ok |-> TRUE, value |-> <<>>, pos |-> n.pos,
                                  events |-> <<>>])
      [] ty.k = "struct" ->
            LET r == DecodeFields(ty.fields, src, version, trace, 1,
                                  [ok |-> TRUE, value |-> target, pos |-> pos,
                                   steps |-> <<>>, events |-> <<>>])
            IN  [ok |-> r.ok, value |-> r.value, pos |-> r.pos, events |-> r.events]
      [] OTHER -> [ok |-> TRUE, value |-> target, pos |-> pos, events |-> <<>>]

DecodeStruct(fields, target, src, version, trace) ==
    DecodeFields(fields, src, version, trace, 1,
                 [ok |-> TRUE, value |-> target, pos |-> 0, steps |-> <<>>,
                  events |-> <<>>])

----------------------------------------------------------------------------
(* The structures of the fetch request, and two-field structures whose     *)
(* first field carries every accepted combination of bounds                *)

NoAttrs == PropAttrsDefault
MinVersion(n) == [PropAttrsDefault EXCEPT !.min_version = PropInt(n)]
MinVersionIgnorable(n) ==
    [PropAttrsDefault EXCEPT !.min_version = PropInt(n),
                             !.ignorable = [kind |-> "Some", value |-> TRUE]]

FetchPartition ==
    << Field("partition_index", IntTy(4), NoAttrs),
       Field("current_leader_epoch", IntTy(4), MinVersionIgnorable(9)),
       Field("fetch_offset", IntTy(8), NoAttrs),
       Field("log_start_offset", IntTy(8), MinVersion(5)),
       Field("max_bytes", IntTy(4), NoAttrs) >>

FetchableTopic ==
    << Field("name", StringTy, NoAttrs),
       Field("fetch_partitions", VecTy(StructTy(FetchPartition)), NoAttrs) >>

ForgottenTopic ==
    << Field("name", StringTy, MinVersion(7)),
       Field("forgotten_partition_indexes", VecTy(IntTy(4)), MinVersion(7)) >>

KfFetchRequest ==
    << Field("replica_id", IntTy(4), NoAttrs),
       Field("max_wait", IntTy(4), NoAttrs),
       Field("min_bytes", IntTy(4), NoAttrs),
       Field("max_bytes", IntTy(4), MinVersionIgnorable(3)),
       Field("isolation_level", IsolationTy, MinVersion(4)),
       Field("session_id", IntTy(4), MinVersion(7)),
       Field("epoch", IntTy(4), MinVersion(7)),
       Field("topics", VecTy(StructTy(FetchableTopic)), NoAttrs),
       Field("forgotten", VecTy(StructTy(ForgottenTopic)), MinVersion(7)),
       Field("data", PhantomTy, NoAttrs) >>

GateMins ==
    {NoExpr, PropLit(TEST), PropFn(test)} \cup {PropInt(n) : n \in 0..MaxGateBound}
GateMaxs == {NoExpr} \cup {PropInt(n) : n \in 0..MaxGateBound}
GateDefaults == {NoExpr, LitStr(<<"-", "1">>)}

\* the attributes the derive accepts: the generated assertion compiles
GateAttrs ==
    {a \in {[PropAttrsDefault EXCEPT !.min_version = lo, !.max_version = hi,
                                     !.default_value = d] :
                lo \in GateMins, hi \in GateMaxs, d \in GateDefaults} :
        ConstAssert(validate_versions_tokens(a.min_version, a.max_version, "gated")).res
            = "Ok"}

GatedPair(attrs) ==
    << Field("gated", IntTy(2), attrs), Field("tail", IntTy(2), NoAttrs) >>

Schemas == {FetchPartition, KfFetchRequest} \cup {GatedPair(a) : a \in GateAttrs}

\* the negotiated versions tried: around the supported range, and the ends
\* of int16
Versions ==
    {I16_MIN, I16_MAX} \cup ((MIN_API_VERSION - 1)..(MAX_API_VERSION + 1))

\* two values of each type, both unlike the default
RECURSIVE ValueA(_), ValueB(_)
ValueA(ty) ==
    CASE ty.k = "int" -> Num(258)
      [] ty.k = "isolation" -> Num(1)
      [] ty.k = "string" -> <<116>>
      [] ty.k = "vec" -> <<ValueA(ty.elem)>>
      [] ty.k = "struct" -> [i \in 1..Len(ty.fields) |-> ValueA(ty.fields[i].ty)]
      [] OTHER -> "PhantomData"
ValueB(ty) ==
    CASE ty.k = "int" -> Num(-2)
      [] ty.k = "isolation" -> Num(1)
      [] ty.k = "string" -> <<116, 49>>
      [] ty.k = "vec" -> <<ValueB(ty.elem), ValueA(ty.elem)>>
      [] ty.k = "struct" -> [i \in 1..Len(ty.fields) |-> ValueB(ty.fields[i].ty)]
      [] OTHER -> "PhantomData"

Values(fields) == {ValueA(StructTy(fields)), ValueB(StructTy(fields))}

\* a structure value is there, nothing was encoded or decoded
CodecStart(schemas, traces) ==
    /\ ResolverIdle
    /\ SchemaIdle
    /\ CheckerIdle
    /\ cSchema \in schemas
    /\ cTrace \in traces
    /\ eValue = DefaultStruct(cSchema)
    /\ eVersion = 0
    /\ eBuf = <<>>
    /\ eSteps = <<>>
    /\ eEvents = <<>>
    /\ dSrc = <<>>
    /\ dTarget = DefaultStruct(cSchema)
    /\ dVersion = 0
    /\ dFresh = TRUE
    /\ dPos = 0
    /\ dResult = NotYet
    /\ dSteps = <<>>
    /\ dEvents = <<>>

CodecInit == CodecStart(Schemas, BOOLEAN) /\ ConcurrentIdle

\* one call of encode: a value is encoded at a version into a new buffer
Encode ==
    \E version \in Versions, value \in Values(cSchema) :
        LET r == EncodeStruct(cSchema, value, version, cTrace)
        IN  /\ eSteps = <<>>
            /\ eValue' = value
            /\ eVersion' = version
            /\ eBuf' = r.buf
            /\ eSteps' = r.steps
            /\ eEvents' = r.events
            /\ dSrc' = <<>>
            /\ dResult' = NotYet
            /\ dSteps' = <<>>
            /\ dEvents' = <<>>
            /\ dPos' = 0
            /\ dVersion' = version
            /\ dTarget' = DefaultStruct(cSchema)
            /\ dFresh' = TRUE
            /\ UNCHANGED <<cSchema, cTrace>>
            /\ UNCHANGED <<resolverVars, schemaVars, concurrentVars, checkerVars>>

\* one call of decode: the bytes written are decoded at a version, into a
\* default value (decode_from) or into a value the caller holds from an
\* earlier message
Decode ==
    \E version \in Versions, target \in {DefaultStruct(cSchema)} \cup Values(cSchema) :
        LET r == DecodeStruct(cSchema, target, eBuf, version, cTrace)
        IN  /\ eSteps # <<>>
            /\ dResult = NotYet
            /\ dSrc' = eBuf
            /\ dTarget' = r.value
            /\ dVersion' = version
            /\ dFresh' = (target = DefaultStruct(cSchema))
            /\ dPos' = r.pos
            /\ dResult' = IF r.ok THEN Ok("decoded") ELSE UnexpectedEof
            /\ dSteps' = r.steps
            /\ dEvents' = r.events
            /\ UNCHANGED <<cSchema, cTrace, encodeVars>>
            /\ UNCHANGED <<resolverVars, schemaVars, concurrentVars, checkerVars>>

CodecNext == Encode \/ Decode

SpecCodec == CodecInit /\ [][CodecNext]_vars

(* Tuple structures: the derive emits the assertion of the unnamed field, *)
(* and the structures it accepts are encoded and decoded                  *)

\* every combination of bounds a field may be declared with
DeclaredAttrs ==
    {[PropAttrsDefault EXCEPT !.min_version = lo, !.max_version = hi,
                              !.default_value = d] :
        lo \in GateMins, hi \in GateMaxs, d \in GateDefaults}

\* a tuple structure of two fields, the first with the given attributes
UnnamedPair(attrs) ==
    << Field(NoName, IntTy(2), attrs), Field(NoName, IntTy(2), NoAttrs) >>

TupleInit ==
    /\ CodecStart({UnnamedPair(a) : a \in DeclaredAttrs}, BOOLEAN)
    /\ ConcurrentIdle

\* UnnamedProp::version_check_token_stream emits the assertion for the
\* first field, and the compiler evaluates it
ValidateUnnamed ==
    /\ sCheck = NotYet
    /\ sCheck' = ConstAssert(validate_versions_tokens(
                        cSchema[1].attrs.min_version, cSchema[1].attrs.max_version, NoName))
    /\ UNCHANGED <<sDecl, sAttrs>>
    /\ UNCHANGED <<resolverVars, codecVars, concurrentVars, checkerVars>>

\* a value of the compiled tuple structure is encoded
TupleEncode == sCheck.res = "Ok" /\ Encode

\* the bytes written are decoded into a value of the tuple structure
TupleDecode == sCheck.res = "Ok" /\ Decode

TupleNext == ValidateUnnamed \/ TupleEncode \/ TupleDecode

SpecTuple == TupleInit /\ [][TupleNext]_vars

(* Decoding a buffer that was cut short *)

\* a two-field structure whose last field is the gated one
GatedLast(attrs) ==
    << Field("head", IntTy(2), NoAttrs), Field("gated", IntTy(2), attrs) >>

TruncatedSchemas ==
    {FetchPartition, FetchableTopic}
        \cup {GatedLast(a) : a \in {g \in GateAttrs : g.default_value = NoExpr}}

TruncatedInit == CodecStart(TruncatedSchemas, {FALSE}) /\ ConcurrentIdle

\* one call of decode on the first `keep` bytes of the bytes written, into
\* a default value
DecodeTruncated ==
    \E version \in Versions, keep \in 0..Len(eBuf) :
        LET r == DecodeStruct(cSchema, DefaultStruct(cSchema),
                              SubSeq(eBuf, 1, keep), version, cTrace)
        IN  /\ eSteps # <<>>
            /\ dResult = NotYet
            /\ dSrc' = SubSeq(eBuf, 1, keep)
            /\ dTarget' = r.value
            /\ dVersion' = version
            /\ dFresh' = TRUE
            /\ dPos' = r.pos
            /\ dResult' = IF r.ok THEN Ok("decoded") ELSE UnexpectedEof
            /\ dSteps' = r.steps
            /\ dEvents' = r.events
            /\ UNCHANGED <<cSchema, cTrace, encodeVars>>
            /\ UNCHANGED <<resolverVars, schemaVars, concurrentVars, checkerVars>>

TruncatedNext == Encode \/ DecodeTruncated

SpecTruncated == TruncatedInit /\ [][TruncatedNext]_vars

----------------------------------------------------------------------------
(* Concurrent calls on one schema: each call encodes or decodes its own    *)
(* value, field by field, and the steps of the calls interleave            *)

\* most calls running at the same time
MaxCalls == 2

ConcurrentSchemas == {FetchPartition}
ConcurrentVersions == {5, 9}

EncodeCall(version, value) ==
    [dir |-> "encode", version |-> version, value |-> value, src |-> <<>>,
     buf |-> <<>>, pos |-> 0, next |-> 1, ok |-> TRUE]
DecodeCall(version, src, target) ==
    [dir |-> "decode", version |-> version, value |-> target, src |-> src,
     buf |-> <<>>, pos |-> 0, next |-> 1, ok |-> TRUE]

\* the calls made on a structure: a value encoded at a version, or bytes
\* written at one version decoded at a version into a default value
CallChoices(fields) ==
    {EncodeCall(v, x) : v \in ConcurrentVersions, x \in Values(fields)}
        \cup {DecodeCall(v, EncodeStruct(fields, ValueB(StructTy(fields)), w, FALSE).buf,
                         DefaultStruct(fields)) :
                v \in ConcurrentVersions, w \in ConcurrentVersions}

\* the call has visited every field, or has failed
CallDone(call) == call.next > Len(cSchema) \/ ~call.ok

\* (variant: every call writes to the buffer of the first call)
OwnBuffer_shared(cs, c) == cs[1].buf

\* the buffer a call writes to: its own
OwnBuffer(cs, c) == cs[c].buf

\* the call c after the gated operation of its next field
FieldStep(cs, c, fields) ==
    LET call == cs[c]
        field == fields[call.next]
        run == version_check(field.attrs, call.version)
    IN  IF call.dir = "encode"
        THEN [call EXCEPT
                !.buf = IF run
                        THEN OwnBuffer(cs, c)
                                \o EncodeType(field.ty, call.value[call.next],
                                              call.version, FALSE).buf
                        ELSE OwnBuffer(cs, c),
                !.next = @ + 1]
        ELSE LET r == IF run
                      THEN DecodeType(field.ty, call.value[call.next], call.src,
                                      call.pos, call.version, FALSE)
                      ELSE [ok |-> TRUE, value |-> call.value[call.next],
                            pos |-> call.pos, events |-> <<>>]
             IN  [call EXCEPT !.value[call.next] = r.value, !.pos = r.pos,
                              !.ok = r.ok, !.next = @ + 1]

ConcurrentInit ==
    /\ CodecStart(ConcurrentSchemas, {FALSE})
    /\ calls \in UNION {[1..n -> CallChoices(cSchema)] : n \in 1..MaxCalls}

\* one of the running calls does the gated operation of its next field
CallStep ==
    \E c \in DOMAIN calls :
        /\ ~CallDone(calls[c])
        /\ calls' = [calls EXCEPT ![c] = FieldStep(calls, c, cSchema)]
        /\ UNCHANGED <<resolverVars, schemaVars, codecVars, checkerVars>>

ConcurrentNext == CallStep

SpecConcurrent == ConcurrentInit /\ [][ConcurrentNext]_vars

----------------------------------------------------------------------------
(* The supported version range of a request (callable.rs): the attributes  *)
(* min_version and max_version of the envelope are read, and the bound     *)
(* assertion is applied to them                                            *)

\* FluvioCallableAttributes::default()
FluvioCallableAttributes == [min_version |-> NoExpr, max_version |-> NoExpr]

\* the versions written as min_version or max_version of an envelope
EnvelopeVersions == (MIN_API_VERSION - MaxBoundLit)..(MAX_API_VERSION + 1)

\* the decimal text of a version
CharOf(d) ==
    CASE d = 0 -> "0" [] d = 1 -> "1" [] d = 2 -> "2" [] d = 3 -> "3" [] d = 4 -> "4"
      [] d = 5 -> "5" [] d = 6 -> "6" [] d = 7 -> "7" [] d = 8 -> "8" [] d = 9 -> "9"
VersionText(n) ==
    LET digits == Base10Digits(IF n < 0 THEN 0 - n ELSE n)
        chars == [i \in DOMAIN digits |-> CharOf(digits[i])]
    IN  IF n < 0 THEN <<"-">> \o chars ELSE chars

\* the attributes of an envelope as written: each key left out, or given
\* once with a string literal holding a version
EnvelopeDecls ==
    [min_version : {NoExpr} \cup {LitStr(VersionText(n)) : n \in EnvelopeVersions},
     max_version : {NoExpr} \cup {LitStr(VersionText(n)) : n \in EnvelopeVersions}]

\* the bound a string literal of an envelope stands for: its text read as
\* an int16
callable_bound(litstr) ==
    IF litstr = NoExpr THEN NoExpr ELSE PropInt(ParseDefault(litstr.value))

\* parse_callable_attributes!: the literal of each key is stored
parse_callable_attributes(decl) ==
    [FluvioCallableAttributes EXCEPT !.min_version = decl.min_version,
                                     !.max_version = decl.max_version]

EnvelopeInit ==
    /\ ResolverIdle /\ CodecIdle /\ ConcurrentIdle /\ CheckerIdle
    /\ sDecl \in EnvelopeDecls
    /\ sAttrs = NotYet
    /\ sCheck = NotYet

\* the attributes of the envelope are read
ParseCallableAttributes ==
    /\ sAttrs = NotYet
    /\ sAttrs' = Ok(parse_callable_attributes(sDecl))
    /\ UNCHANGED <<sDecl, sCheck>>
    /\ UNCHANGED <<resolverVars, codecVars, concurrentVars, checkerVars>>

\* the bound assertion is generated for the supported range, with no field
\* name, and the compiler evaluates it
ValidateEnvelope ==
    /\ sAttrs.res = "Ok"
    /\ sCheck = NotYet
    /\ sCheck' = ConstAssert(validate_versions_tokens(
                        callable_bound(sAttrs.value.min_version),
                        callable_bound(sAttrs.value.max_version), ""))
    /\ UNCHANGED <<sDecl, sAttrs>>
    /\ UNCHANGED <<resolverVars, codecVars, concurrentVars, checkerVars>>

EnvelopeNext == ParseCallableAttributes \/ ValidateEnvelope

SpecEnvelope == EnvelopeInit /\ [][EnvelopeNext]_vars

----------------------------------------------------------------------------
(* The cluster checker (cluster/src/check/mod.rs): a list of checks is     *)
(* built, and run_wait performs them                                       *)

\* most builder calls made on one checker
MaxBuilds == 2
\* most checks of one run that do not pass
MaxTroubles == 1

\* CheckResult: Ok(CheckStatus::Pass), Ok(CheckStatus::Fail(..)), Err(CheckError)
Pass == Ok([status |-> "Pass"])
FailAutoRecoverable == Ok([status |-> "Fail", failed |-> "AutoRecoverable"])
FailUnrecoverable == Ok([status |-> "Fail", failed |-> "Unrecoverable"])
CheckErr == Err("CheckError")
CheckResult == {Pass, FailAutoRecoverable, FailUnrecoverable, CheckErr}

\* the checks handed to with_check
AddedChecks == {"AlreadyInstalled", "LoadBalancer"}

\* (variant: the check is put before the checks added earlier)
with_check_first(checks, check) == <<check>> \o checks

\* ClusterChecker::with_check
with_check(checks, check) == Append(checks, check)

\* ClusterChecker::with_preflight_checks
with_preflight_checks(checks) ==
    checks \o <<"LoadableConfig", "K8Version", "HelmVersion", "SysChart",
                "CreateServicePermission", "CreateCrdPermission",
                "CreateServiceAccountPermission", "LoadBalancer">>

\* ClusterChecker::with_k8_checks
with_k8_checks(checks) ==
    checks \o <<"LoadableConfig", "HelmVersion", "SysChart", "LoadBalancer">>

\* ClusterChecker::with_local_checks
with_local_checks(checks) ==
    checks \o <<"HelmVersion", "K8Version", "LoadableConfig", "SysChart">>

\* ClusterChecker::empty()
CheckerInit == ResolverIdle /\ SchemaIdle /\ CodecIdle /\ ConcurrentIdle /\ CheckerIdle

Building == kPc = "building" /\ Len(kAdded) < MaxBuilds

WithCheck ==
    /\ Building
    /\ \E check \in AddedChecks :
        /\ kChecks' = with_check(kChecks, check)
        /\ kAdded' = Append(kAdded, <<"with_check", check>>)
    /\ UNCHANGED <<kPc, kNext, kPerformed, kResults, kRun, kFixes, progressVars>>
    /\ UNCHANGED <<resolverVars, schemaVars, codecVars, concurrentVars, serviceVars>>

WithPreflightChecks ==
    /\ Building
    /\ kChecks' = with_preflight_checks(kChecks)
    /\ kAdded' = Append(kAdded, <<"with_preflight_checks">>)
    /\ UNCHANGED <<kPc, kNext, kPerformed, kResults, kRun, kFixes, progressVars>>
    /\ UNCHANGED <<resolverVars, schemaVars, codecVars, concurrentVars, serviceVars>>

WithK8Checks ==
    /\ Building
    /\ kChecks' = with_k8_checks(kChecks)
    /\ kAdded' = Append(kAdded, <<"with_k8_checks">>)
    /\ UNCHANGED <<kPc, kNext, kPerformed, kResults, kRun, kFixes, progressVars>>
    /\ UNCHANGED <<resolverVars, schemaVars, codecVars, concurrentVars, serviceVars>>

WithLocalChecks ==
    /\ Building
    /\ kChecks' = with_local_checks(kChecks)
    /\ kAdded' = Append(kAdded, <<"with_local_checks">>)
    /\ UNCHANGED <<kPc, kNext, kPerformed, kResults, kRun, kFixes, progressVars>>
    /\ UNCHANGED <<resolverVars, schemaVars, codecVars, concurrentVars, serviceVars>>

\* the checks performed so far that did not pass
Troubles == Cardinality({i \in DOMAIN kPerformed : kPerformed[i].result # Pass})

\* what a check may come back with
PerformCheck == IF Troubles < MaxTroubles THEN CheckResult ELSE {Pass}

\* run_wait is called: `let mut check_results = vec![]`
RunWait ==
    /\ kPc = "building"
    /\ kPc' = "run_wait"
    /\ kRun' = "run_wait"
    /\ kNext' = 1
    /\ kResults' = <<>>
    /\ UNCHANGED <<kAdded, kChecks, kPerformed, kFixes, progressVars>>
    /\ UNCHANGED <<resolverVars, schemaVars, codecVars, concurrentVars, serviceVars>>

\* one turn of the loop of run_wait: the check is performed and its result
\* pushed
RunWaitCheck ==
    /\ kPc = "run_wait"
    /\ kNext <= Len(kChecks)
    /\ \E result \in PerformCheck :
        /\ kPerformed' = Append(kPerformed,
                                [index |-> kNext, check |-> kChecks[kNext],
                                 result |-> result])
        /\ kResults' = Append(kResults, result)
    /\ kNext' = kNext + 1
    /\ UNCHANGED <<kAdded, kChecks, kPc, kRun, kFixes, progressVars>>
    /\ UNCHANGED <<resolverVars, schemaVars, codecVars, concurrentVars, serviceVars>>

\* the loop of run_wait is over: check_results is returned
RunWaitReturn ==
    /\ kPc = "run_wait"
    /\ kNext > Len(kChecks)
    /\ kPc' = "returned"
    /\ UNCHANGED <<kAdded, kChecks, kNext, kPerformed, kResults, kRun, kFixes, progressVars>>
    /\ UNCHANGED <<resolverVars, schemaVars, codecVars, concurrentVars, serviceVars>>

\* the future handed to run_wait_and_fix as `fix` resolves to Ok(()) or to
\* Err(UnrecoverableCheck)
FixResult == {Ok("unit"), Err("FailedRecovery")}

\* format!("{}", it) of the RecoverableCheck of a failed check
Display(result) == <<"Display", result.value.failed>>

\* (variant: the message is the text of the failure alone)
Fixed_bare(err) == Ok([status |-> "Pass", message |-> err])

\* CheckStatus::pass(format!("Fixed: {}", err))
Fixed(err) == Ok([status |-> "Pass", message |-> <<"Fixed: ", err>>])

\* CheckStatus::fail(CheckFailed::Unrecoverable(e))
FixFailed(e) == Ok([status |-> "Fail", failed |-> "Unrecoverable", check |-> e])

\* (variant: the loop goes on after a fix that failed)
and_fix_match_going_on(check_result, fix_result) ==
    IF check_result = Pass THEN
        [pushed |-> check_result, fixing |-> FALSE, returns |-> FALSE]
    ELSE IF check_result = FailAutoRecoverable THEN
        IF fix_result.res = "Ok" THEN
            [pushed |-> Fixed(Display(check_result)), fixing |-> TRUE, returns |-> FALSE]
        ELSE
            [pushed |-> FixFailed(fix_result.msg), fixing |-> TRUE, returns |-> FALSE]
    ELSE
        [pushed |-> check_result, fixing |-> FALSE, returns |-> TRUE]

\* the match of one turn of the loop of run_wait_and_fix: the result pushed,
\* whether `fix` was awaited, and whether the turn returns the results
and_fix_match(check_result, fix_result) ==
    IF check_result = Pass THEN
        [pushed |-> check_result, fixing |-> FALSE, returns |-> FALSE]
    ELSE IF check_result = FailAutoRecoverable THEN
        IF fix_result.res = "Ok" THEN
            [pushed |-> Fixed(Display(check_result)), fixing |-> TRUE, returns |-> FALSE]
        ELSE
            [pushed |-> FixFailed(fix_result.msg), fixing |-> TRUE, returns |-> TRUE]
    ELSE
        [pushed |-> check_result, fixing |-> FALSE, returns |-> TRUE]

\* the fix functions awaited so far, extended by the one of this turn
Fixing(turn, check_result, fix_result) ==
    IF turn.fixing
    THEN Append(kFixes, [index |-> kNext, failed |-> check_result,
                         performed |-> Len(kPerformed) + 1, result |-> fix_result])
    ELSE kFixes

\* run_wait_and_fix is called: `let mut results = vec![]`
RunWaitAndFix ==
    /\ kPc = "building"
    /\ kPc' = "run_wait_and_fix"
    /\ kRun' = "run_wait_and_fix"
    /\ kNext' = 1
    /\ kResults' = <<>>
    /\ UNCHANGED <<kAdded, kChecks, kPerformed, kFixes, progressVars>>
    /\ UNCHANGED <<resolverVars, schemaVars, codecVars, concurrentVars, serviceVars>>

\* one turn of the loop of run_wait_and_fix: the check is performed, a
\* recoverable failure is handed to `fix`, the result is pushed, and the
\* results are returned at once unless the check passed or was fixed
RunWaitAndFixCheck ==
    /\ kPc = "run_wait_and_fix"
    /\ kNext <= Len(kChecks)
    /\ \E check_result \in PerformCheck :
       \E fix_result \in (IF check_result = FailAutoRecoverable
                          THEN FixResult ELSE {NotYet}) :
        LET turn == and_fix_match(check_result, fix_result)
        IN  /\ kPerformed' = Append(kPerformed,
                                    [index |-> kNext, check |-> kChecks[kNext],
                                     result |-> check_result])
            /\ kFixes' = Fixing(turn, check_result, fix_result)
            /\ kResults' = Append(kResults, turn.pushed)
            /\ kPc' = IF turn.returns THEN "returned" ELSE kPc
    /\ kNext' = kNext + 1
    /\ UNCHANGED <<kAdded, kChecks, kRun, progressVars>>
    /\ UNCHANGED <<resolverVars, schemaVars, codecVars, concurrentVars, serviceVars>>

\* the loop of run_wait_and_fix is over: results is returned
RunWaitAndFixReturn ==
    /\ kPc = "run_wait_and_fix"
    /\ kNext > Len(kChecks)
    /\ kPc' = "returned"
    /\ UNCHANGED <<kAdded, kChecks, kNext, kPerformed, kResults, kRun, kFixes, progressVars>>
    /\ UNCHANGED <<resolverVars, schemaVars, codecVars, concurrentVars, serviceVars>>

CheckerNext ==
    \/ RunWaitAndFix
    \/ RunWaitAndFixCheck
    \/ RunWaitAndFixReturn
    \/ WithCheck
    \/ WithPreflightChecks
    \/ WithK8Checks
    \/ WithLocalChecks
    \/ RunWait
    \/ RunWaitCheck
    \/ RunWaitReturn

SpecChecker == CheckerInit /\ [][CheckerNext]_vars

----------------------------------------------------------------------------
(* The runs with progress (run_with_progress, run_and_fix_with_progress): *)
(* a spawned task performs the checks and sends each result on a bounded  *)
(* channel, the caller receives from it                                    *)

\* async_channel::bounded(100)
CHANNEL_CAPACITY == 100

\* (variant: the channel hands out the newest result first)
send_newest_first(channel, msg) == <<msg>> \o channel

\* Sender::send on a channel that is open and has room
send(channel, msg) == Append(channel, msg)

\* the checks of a checker built by the given with_check calls
RECURSIVE Built(_)
Built(added) ==
    IF added = <<>> THEN <<>>
    ELSE with_check(Built(SubSeq(added, 1, Len(added) - 1)), added[Len(added)][2])

\* the with_check calls that built the checker handed to a run with progress
Builds ==
    UNION {[1..n -> {<<"with_check", check>> : check \in AddedChecks}] : n \in 0..MaxBuilds}

ProgressInit ==
    /\ ResolverIdle /\ SchemaIdle /\ CodecIdle /\ ConcurrentIdle
    /\ kAdded \in Builds
    /\ kChecks = Built(kAdded)
    /\ kPc = "building"
    /\ kNext = 0
    /\ kPerformed = <<>>
    /\ kResults = <<>>
    /\ kRun = "none"
    /\ kFixes = <<>>
    /\ kChannel = <<>>
    /\ kDelivered = <<>>
    /\ kReceiver = "none"
    /\ lbPc = "idle"
    /\ lbUser = "none"
    /\ lbCommands = <<>>
    /\ lbAttempts = <<>>
    /\ lbWait = NotYet
    /\ lbResult = NotYet

\* the match of one turn of the loop of run_and_fix_with_progress: the
\* result sent, whether `fix` was awaited, and whether the task returns
\* after the send
and_fix_with_progress_match(check_result, fix_result) ==
    IF check_result = Pass THEN
        [pushed |-> check_result, fixing |-> FALSE, returns |-> FALSE]
    ELSE IF check_result = FailAutoRecoverable THEN
        IF fix_result.res = "Ok" THEN
            [pushed |-> Fixed(Display(check_result)), fixing |-> TRUE, returns |-> FALSE]
        ELSE
            [pushed |-> FixFailed(fix_result.msg), fixing |-> TRUE, returns |-> FALSE]
    ELSE
        [pushed |-> check_result, fixing |-> FALSE, returns |-> TRUE]

\* run_with_progress is called: the channel is made, the task spawned and
\* the receiver handed to the caller
RunWithProgress ==
    /\ kPc = "building"
    /\ kPc' = "run_with_progress"
    /\ kRun' = "run_with_progress"
    /\ kNext' = 1
    /\ kChannel' = <<>>
    /\ kReceiver' = "receiving"
    /\ UNCHANGED <<kAdded, kChecks, kPerformed, kResults, kFixes, kDelivered>>
    /\ UNCHANGED <<resolverVars, schemaVars, codecVars, concurrentVars, serviceVars>>

\* the task of run_with_progress performs the next check
ProgressCheck ==
    /\ kPc = "run_with_progress"
    /\ kNext <= Len(kChecks)
    /\ \E check_result \in PerformCheck :
        /\ kPerformed' = Append(kPerformed,
                                [index |-> kNext, check |-> kChecks[kNext],
                                 result |-> check_result])
        /\ kResults' = Append(kResults, check_result)
    /\ kPc' = "send"
    /\ UNCHANGED <<kAdded, kChecks, kNext, kRun, kFixes, progressVars>>
    /\ UNCHANGED <<resolverVars, schemaVars, codecVars, concurrentVars, serviceVars>>

\* run_and_fix_with_progress is called: the channel is made, the task
\* spawned and the receiver handed to the caller
RunAndFixWithProgress ==
    /\ kPc = "building"
    /\ kPc' = "run_and_fix_with_progress"
    /\ kRun' = "run_and_fix_with_progress"
    /\ kNext' = 1
    /\ kChannel' = <<>>
    /\ kReceiver' = "receiving"
    /\ UNCHANGED <<kAdded, kChecks, kPerformed, kResults, kFixes, kDelivered>>
    /\ UNCHANGED <<resolverVars, schemaVars, codecVars, concurrentVars, serviceVars>>

\* the task of run_and_fix_with_progress performs the next check and hands
\* a recoverable failure to `fix`
AndFixProgressCheck ==
    /\ kPc = "run_and_fix_with_progress"
    /\ kNext <= Len(kChecks)
    /\ \E check_result \in PerformCheck :
       \E fix_result \in (IF check_result = FailAutoRecoverable
                          THEN FixResult ELSE {NotYet}) :
        LET turn == and_fix_with_progress_match(check_result, fix_result)
        IN  /\ kPerformed' = Append(kPerformed,
                                    [index |-> kNext, check |-> kChecks[kNext],
                                     result |-> check_result])
            /\ kFixes' = Fixing(turn, check_result, fix_result)
            /\ kResults' = Append(kResults, turn.pushed)
            /\ kPc' = IF turn.returns THEN "send_return" ELSE "send"
    /\ UNCHANGED <<kAdded, kChecks, kNext, kRun, progressVars>>
    /\ UNCHANGED <<resolverVars, schemaVars, codecVars, concurrentVars, serviceVars>>

\* sender.send(..).await of either task: the result is queued when the
\* channel has room, the send fails (and is logged or ignored) when the
\* receiver is gone; then the loop goes on, or the task returns
ProgressSend ==
    /\ kPc \in {"send", "send_return"}
    /\ IF kReceiver = "dropped"
       THEN kChannel' = kChannel
       ELSE /\ Len(kChannel) < CHANNEL_CAPACITY
            /\ kChannel' = send(kChannel, kResults[Len(kResults)])
    /\ kPc' = IF kPc = "send_return" THEN "returned" ELSE kRun
    /\ kNext' = kNext + 1
    /\ UNCHANGED <<kAdded, kChecks, kPerformed, kResults, kRun, kFixes, kDelivered, kReceiver>>
    /\ UNCHANGED <<resolverVars, schemaVars, codecVars, concurrentVars, serviceVars>>

\* the loop of either task is over: the task ends and the sender is dropped
ProgressEnd ==
    /\ kPc \in {"run_with_progress", "run_and_fix_with_progress"}
    /\ kNext > Len(kChecks)
    /\ kPc' = "returned"
    /\ UNCHANGED <<kAdded, kChecks, kNext, kPerformed, kResults, kRun, kFixes, progressVars>>
    /\ UNCHANGED <<resolverVars, schemaVars, codecVars, concurrentVars, serviceVars>>

\* `while let Ok(check_result) = progress.recv().await`: a result is received
Receive ==
    /\ kReceiver = "receiving"
    /\ kChannel # <<>>
    /\ kDelivered' = Append(kDelivered, Head(kChannel))
    /\ kChannel' = Tail(kChannel)
    /\ UNCHANGED <<kAdded, kChecks, kPc, kNext, kPerformed, kResults, kRun, kFixes, kReceiver>>
    /\ UNCHANGED <<resolverVars, schemaVars, codecVars, concurrentVars, serviceVars>>

\* the channel is empty and its sender dropped: recv() is an error and the
\* receive loop ends
ReceiveClosed ==
    /\ kReceiver = "receiving"
    /\ kChannel = <<>>
    /\ kPc = "returned"
    /\ kReceiver' = "ended"
    /\ UNCHANGED <<kAdded, kChecks, kPc, kNext, kPerformed, kResults, kRun, kFixes,
                   kChannel, kDelivered>>
    /\ UNCHANGED <<resolverVars, schemaVars, codecVars, concurrentVars, serviceVars>>

\* the caller drops the receiver without receiving further
ReceiverDropped ==
    /\ kReceiver = "receiving"
    /\ kReceiver' = "dropped"
    /\ UNCHANGED <<kAdded, kChecks, kPc, kNext, kPerformed, kResults, kRun, kFixes,
                   kChannel, kDelivered>>
    /\ UNCHANGED <<resolverVars, schemaVars, codecVars, concurrentVars, serviceVars>>

\* the steps of the spawned task
ProgressTask ==
    \/ ProgressCheck
    \/ AndFixProgressCheck
    \/ ProgressSend
    \/ ProgressEnd

\* the steps of a caller that keeps receiving
ReceiveLoop ==
    \/ Receive
    \/ ReceiveClosed

ProgressNext ==
    \/ RunWithProgress
    \/ RunAndFixWithProgress
    \/ ProgressTask
    \/ ReceiveLoop
    \/ ReceiverDropped

\* the spawned task is run by the executor until it ends, and a caller that
\* has not dropped the receiver keeps receiving
SpecProgress ==
    /\ ProgressInit
    /\ [][ProgressNext]_vars
    /\ WF_vars(ProgressTask)
    /\ WF_vars(ReceiveLoop)

----------------------------------------------------------------------------
(* The load balancer check (check_load_balancer_status): a dummy service   *)
(* is created, wait_for_service_exist polls it for an address, and the     *)
(* service is deleted                                                      *)

\* `for _ in 0..10u16`
RETRIEVE_ATTEMPTS == 10

\* K8Config::load(): an error, a pod configuration, or a kube configuration
\* without current context or with the user of its current context
K8Configs == {"LoadError", "Pod", "NoContext", "minikube", "admin"}

\* what client.retrieve_item(..).await comes back with: a service with or
\* without load balancer address, the client error NOT_FOUND, another error
RetrieveOutcomes == {"Address", "NoAddress", "NOT_FOUND", "OtherError"}

\* the targets get_tunnel_error is compiled for
TargetOs == {"macos", "other"}

\* get_tunnel_error
get_tunnel_error(target_os) ==
    IF target_os = "macos"
    THEN [status |-> "Fail", failed |-> "Unrecoverable", check |-> "MinikubeTunnelNotFound"]
    ELSE [status |-> "Fail", failed |-> "AutoRecoverable",
          check |-> "MinikubeTunnelNotFoundRetry"]

\* (variant: every client error is waited out)
IsRetried_every_error(outcome) == outcome # "Address"

\* the arms of the match in wait_for_service_exist that sleep and go on
IsRetried(outcome) == outcome \in {"NoAddress", "NOT_FOUND"}

LoadBalancerInit ==
    ResolverIdle /\ SchemaIdle /\ CodecIdle /\ ConcurrentIdle /\ CheckerIdle

\* check_load_balancer_status up to create_dummy_service
LoadConfig ==
    /\ lbPc = "idle"
    /\ \E config \in K8Configs :
        CASE config = "LoadError" ->
                /\ lbResult' = Err("K8ConfigError")
                /\ lbPc' = "returned"
                /\ UNCHANGED lbUser
          [] config = "Pod" ->
                /\ lbResult' = Ok([status |-> "Pass",
                                   message |-> "Pod config found, ignoring the check"])
                /\ lbPc' = "returned"
                /\ UNCHANGED lbUser
          [] config = "NoContext" ->
                /\ lbResult' = Ok([status |-> "Fail", failed |-> "Unrecoverable",
                                   check |-> "NoActiveKubernetesContext"])
                /\ lbPc' = "returned"
                /\ UNCHANGED lbUser
          [] OTHER ->
                /\ lbUser' = config
                /\ lbPc' = "create_dummy_service"
                /\ UNCHANGED lbResult
    /\ UNCHANGED <<lbCommands, lbAttempts, lbWait>>
    /\ UNCHANGED <<resolverVars, schemaVars, codecVars, concurrentVars>>
    /\ UNCHANGED <<kAdded, kChecks, kPc, kNext, kPerformed, kResults, kRun, kFixes, progressVars>>

\* create_dummy_service()?: kubectl is run, or cannot be run
CreateDummyService ==
    /\ lbPc = "create_dummy_service"
    /\ \E ran \in BOOLEAN :
        IF ran
        THEN /\ lbCommands' = Append(lbCommands, "create")
             /\ lbPc' = "wait_for_service_exist"
             /\ UNCHANGED lbResult
        ELSE /\ lbResult' = Err("ServiceCreateError")
             /\ lbPc' = "returned"
             /\ UNCHANGED lbCommands
    /\ UNCHANGED <<lbUser, lbAttempts, lbWait>>
    /\ UNCHANGED <<resolverVars, schemaVars, codecVars, concurrentVars>>
    /\ UNCHANGED <<kAdded, kChecks, kPc, kNext, kPerformed, kResults, kRun, kFixes, progressVars>>

\* wait_for_service_exist: `let client = load_and_share()?`
LoadAndShare ==
    /\ lbPc = "wait_for_service_exist"
    /\ \E loaded \in BOOLEAN :
        IF loaded
        THEN /\ lbPc' = "retrieve_item"
             /\ UNCHANGED lbWait
        ELSE /\ lbWait' = Err("load_and_share")
             /\ lbPc' = "waited"
    /\ UNCHANGED <<lbUser, lbCommands, lbAttempts, lbResult>>
    /\ UNCHANGED <<resolverVars, schemaVars, codecVars, concurrentVars>>
    /\ UNCHANGED <<kAdded, kChecks, kPc, kNext, kPerformed, kResults, kRun, kFixes, progressVars>>

\* one turn of the loop of wait_for_service_exist
RetrieveItem ==
    /\ lbPc = "retrieve_item"
    /\ Len(lbAttempts) < RETRIEVE_ATTEMPTS
    /\ \E outcome \in RetrieveOutcomes :
        /\ lbAttempts' = Append(lbAttempts, outcome)
        /\ IF IsRetried(outcome)
           THEN UNCHANGED <<lbWait, lbPc>>
           ELSE /\ lbWait' = IF outcome = "Address" THEN Ok([some |-> "addr"])
                                                     ELSE Err("K8ClientError")
                /\ lbPc' = "waited"
    /\ UNCHANGED <<lbUser, lbCommands, lbResult>>
    /\ UNCHANGED <<resolverVars, schemaVars, codecVars, concurrentVars>>
    /\ UNCHANGED <<kAdded, kChecks, kPc, kNext, kPerformed, kResults, kRun, kFixes, progressVars>>

\* the loop of wait_for_service_exist is over: Ok(None)
RetrieveGivenUp ==
    /\ lbPc = "retrieve_item"
    /\ Len(lbAttempts) >= RETRIEVE_ATTEMPTS
    /\ lbWait' = Ok([none |-> TRUE])
    /\ lbPc' = "waited"
    /\ UNCHANGED <<lbUser, lbCommands, lbAttempts, lbResult>>
    /\ UNCHANGED <<resolverVars, schemaVars, codecVars, concurrentVars>>
    /\ UNCHANGED <<kAdded, kChecks, kPc, kNext, kPerformed, kResults, kRun, kFixes, progressVars>>

\* check_load_balancer_status after `wait_for_service_exist(..).await`: the
\* `?` returns its error; otherwise delete_service()? is called and the
\* result follows from the address
AfterWait ==
    /\ lbPc = "waited"
    /\ IF lbWait.res = "Err"
       THEN /\ lbResult' = lbWait
            /\ UNCHANGED lbCommands
       ELSE \E ran \in BOOLEAN, target_os \in TargetOs :
            IF ~ran
            THEN /\ lbResult' = Err("ServiceDeleteError")
                 /\ lbCommands' = Append(lbCommands, "delete (not run)")
            ELSE /\ lbCommands' = Append(lbCommands, "delete")
                 /\ lbResult' =
                        IF "some" \in DOMAIN lbWait.value
                        THEN Ok([status |-> "Pass", message |-> "Load balancer is up"])
                        ELSE IF lbUser = "minikube"
                        THEN Ok(get_tunnel_error(target_os))
                        ELSE Ok([status |-> "Fail", failed |-> "Unrecoverable",
                                 check |-> "LoadBalancerServiceNotAvailable"])
    /\ lbPc' = "returned"
    /\ UNCHANGED <<lbUser, lbAttempts, lbWait>>
    /\ UNCHANGED <<resolverVars, schemaVars, codecVars, concurrentVars>>
    /\ UNCHANGED <<kAdded, kChecks, kPc, kNext, kPerformed, kResults, kRun, kFixes, progressVars>>

LoadBalancerNext ==
    \/ LoadConfig
    \/ CreateDummyService
    \/ LoadAndShare
    \/ RetrieveItem
    \/ RetrieveGivenUp
    \/ AfterWait

\* the future of check_load_balancer_status is polled until it is ready
SpecLoadBalancer ==
    /\ LoadBalancerInit
    /\ [][LoadBalancerNext]_vars
    /\ WF_vars(LoadBalancerNext)

----------------------------------------------------------------------------
(* Claims about the resolver (checked under SpecResolver) *)

\* a literal's digits without its leading zeros
RECURSIVE Canonical(_)
Canonical(digits) ==
    IF Len(digits) > 1 /\ digits[1] = 0 THEN Canonical(Tail(digits)) ELSE digits

Rendered == rTokens # <<>>

\* the expression is an operator applied to an integer literal 1..32767
IsUnaryOfPositiveLiteral(e) ==
    /\ e.kind = "Unary"
    /\ e.expr.kind = "LitInt"
    /\ Base10Value(e.expr.digits) \in 1..I16_MAX

\* C9: a unary operator applied to a positive integer literal n resolves to
\* the constant -n, rendered as the tokens `-` `n_i16`; a unary expression
\* whose operand is not an integer literal (a doubly negated literal
\* included) is rejected with an error.
C9_UnaryResolvesNegated ==
    /\ IsUnaryOfPositiveLiteral(rExpr) =>
            /\ rResult = Ok(PropInt(0 - Base10Value(rExpr.expr.digits)))
            /\ Rendered =>
                    rTokens = <<PunctTok("-"),
                                LiteralTok(Canonical(rExpr.expr.digits), "i16")>>
    /\ (rExpr.kind = "Unary" /\ rExpr.expr.kind # "LitInt") => rResult.res = "Err"

\* the string is f followed by `()`, f an identifier
IsCallOf(s, f) == s = f \o <<"(", ")">> /\ IsIdent(f)

\* C10: every accepted expression is classified into one variant and
\* rendered back unchanged: an integer literal n is Int(n), rendered n_i16;
\* a string literal that is an identifier c, or a one-segment path c, is
\* Lit(c), rendered c; a string literal f() is Fn(f), rendered f ().
C10_ClassifiedAndRendered ==
    /\ (rExpr.kind = "LitInt" /\ rResult.res = "Ok") =>
            /\ rResult.value.kind = "Int"
            /\ Base10Digits(rResult.value.value) = Canonical(rExpr.digits)
            /\ Rendered => rTokens = <<LiteralTok(Canonical(rExpr.digits), "i16")>>
    /\ (rExpr.kind = "LitStr" /\ IsIdent(rExpr.value)) =>
            /\ rResult = Ok(PropLit(rExpr.value))
            /\ Rendered => rTokens = <<IdentTok(rExpr.value)>>
    /\ (rExpr.kind = "Path" /\ Len(rExpr.segments) = 1) =>
            /\ rResult = Ok(PropLit(rExpr.segments[1]))
            /\ Rendered => rTokens = <<IdentTok(rExpr.segments[1])>>
    /\ \A f \in Strings :
            (rExpr.kind = "LitStr" /\ IsCallOf(rExpr.value, f)) =>
                /\ rResult = Ok(PropFn(f))
                /\ Rendered => rTokens = <<IdentTok(f), ParenGroupTok>>
    /\ (rExpr.kind \in {"LitInt", "LitStr", "Path"} /\ rResult.res = "Ok") =>
            /\ rResult.value.kind = "Int" <=> rExpr.kind = "LitInt"
            /\ rResult.value.kind = "Fn" <=>
                    (rExpr.kind = "LitStr" /\ \E f \in Strings : IsCallOf(rExpr.value, f))

\* a function reference written "t()" has been resolved and rendered
C10_Witness ==
    /\ rExpr = LitStr(<<"t", "(", ")">>)
    /\ rResult = Ok(PropFn(<<"t">>))
    /\ rTokens = <<IdentTok(<<"t">>), ParenGroupTok>>

\* the forms of a bound the resolver is specified to accept
AcceptedForm(e) ==
    \/ e.kind = "LitInt"
    \/ e.kind = "LitStr" /\ IsIdent(e.value)
    \/ e.kind = "LitStr" /\ \E f \in Strings : IsCallOf(e.value, f)
    \/ e.kind = "Unary" /\ e.op = "Neg" /\ e.expr.kind = "LitInt"
    \/ e.kind = "Path" /\ Len(e.segments) = 1

InvalidBoundExpression == rResult.res = "Err"

\* C12: resolving an expression that is not one of the accepted forms
\* returns an error (InvalidBoundExpression), never a bound and never a
\* panic: a string literal with parentheses that does not end in `()`, a
\* string literal that is not an identifier, a literal that is neither an
\* integer nor a string, a missing value.
C12_InvalidExpressionIsError ==
    (rResult # NotYet /\ ~AcceptedForm(rExpr)) => InvalidBoundExpression

----------------------------------------------------------------------------
(* Claims about the construction of a field (checked under SpecSchema) *)

Absent == [kind |-> "Absent"]

\* the expression written for a key of the declaration, Absent without it
Written(decl, key) ==
    LET at == {i \in DOMAIN decl.metas : decl.metas[i].key = key}
    IN  IF at = {} THEN Absent ELSE decl.metas[CHOOSE i \in at : TRUE].value

\* an integer constant: a literal, or a negated literal
IsIntConst(e) ==
    \/ e.kind = "LitInt"
    \/ e.kind = "Unary" /\ e.op = "Neg" /\ e.expr.kind = "LitInt"

\* the integer an integer constant denotes
IntConst(e) ==
    IF e.kind = "LitInt" THEN Base10Value(e.digits) ELSE 0 - Base10Value(e.expr.digits)

Validated == sAttrs.res = "Ok" /\ sCheck # NotYet

InvalidMinMaxOrdering == Err("max version is less than min version")
NegativeMinVersion == Err("min version must be positive")

\* C6: a field whose min_version and max_version are integer constants
\* with max < min fails with InvalidMinMaxOrdering, and passes the check
\* whenever min <= max.
C6_MinMaxOrdering ==
    LET min == Written(sDecl, "min_version")
        max == Written(sDecl, "max_version")
    IN  (Validated /\ IsIntConst(min) /\ IsIntConst(max)) =>
            IF IntConst(max) < IntConst(min)
            THEN sCheck = InvalidMinMaxOrdering
            ELSE sCheck.res = "Ok"

\* C7: a field whose min_version is a negative integer constant and that
\* declares no max_version fails with NegativeMinVersion; min_version = 0
\* or no min_version passes the check.
C7_NegativeMinRejected ==
    LET min == Written(sDecl, "min_version")
        max == Written(sDecl, "max_version")
    IN  (Validated /\ max = Absent) =>
            /\ (IsIntConst(min) /\ IntConst(min) < 0) => sCheck = NegativeMinVersion
            /\ (min = Absent \/ (IsIntConst(min) /\ IntConst(min) = 0)) =>
                    sCheck.res = "Ok"

RecognizedKeys == {"min_version", "max_version", "default", "ignorable"}

\* the items of a declaration whose key was given by an earlier item
Repeats(decl) ==
    {j \in DOMAIN decl.metas :
        /\ decl.metas[j].key \in RecognizedKeys
        /\ \E i \in 1..(j - 1) : decl.metas[i].key = decl.metas[j].key}

\* the first n items of a declaration, in the same attributes
Prefix(decl, n) ==
    [decl EXCEPT !.metas = SubSeq(decl.metas, 1, n),
                 !.split = IF decl.split < n THEN decl.split ELSE n]

DuplicateAttribute == Err("fluvio attribute already specified")

WithoutUnrecognized(decl) ==
    [decl EXCEPT !.metas = SelectSeq(decl.metas, LAMBDA m : m.key \in RecognizedKeys),
                 !.split = 0]

\* C14: a declaration with a key that is not recognized still builds the
\* field: when its other items are accepted the construction succeeds, and
\* gives the attributes the declaration gives without that key.
C14_UnrecognizedKeyTolerated ==
    (sAttrs # NotYet /\ from_ast(WithoutUnrecognized(sDecl)).res = "Ok") =>
        sAttrs = from_ast(WithoutUnrecognized(sDecl))

\* the bound is a reference to a function that is not available
IsUnavailableFn(bound) == bound.kind = "Fn" /\ FnValue(bound.ident).res # "Ok"

\* C16: a bound given as a function reference is left to the time of use: a
\* field whose bound names a function that is not available is still built
\* (nothing fails when the structure is defined), so that the encode or
\* decode call can end with UnresolvedBound.
C16_FunctionBoundAtUseTime ==
    (Validated /\ \/ IsUnavailableFn(sAttrs.value.min_version)
                  \/ IsUnavailableFn(sAttrs.value.max_version)) =>
        sCheck.res = "Ok"

\* C8: every field that passes validation and has an integer-constant
\* min_version has min_version >= 0, with or without a max_version.
C8_ValidatedMinNonNegative ==
    LET min == Written(sDecl, "min_version")
    IN  (Validated /\ sCheck.res = "Ok" /\ IsIntConst(min)) => IntConst(min) >= 0

\* a bound written as the name of a constant or as the call of a function
\* that are in scope
IsReference(e) ==
    \/ e.kind = "LitStr" /\ e.value \in {TEST, NEG, test \o <<"(", ")">>}
    \/ e.kind = "Path" /\ e.segments = <<TEST>>

\* the value a written bound stands for; a field without min_version has
\* the bound 0
ResolvedBound(e) ==
    IF e = Absent THEN 0
    ELSE IF IsIntConst(e) THEN IntConst(e)
    ELSE IF e.kind = "Path" THEN ConstValue(e.segments[1]).value
    ELSE IF e.value = test \o <<"(", ")">> THEN FnValue(test).value
    ELSE ConstValue(e.value).value

\* C23: for a field whose min_version or max_version is a function or
\* constant reference, the ordering and positivity checks are not skipped
\* but applied to the resolved values: no field is accepted, and so none is
\* encoded or decoded, with a resolved max below the resolved min, or with
\* a negative resolved min and no max_version.
C23_ReferenceBoundsValidated ==
    LET min == Written(sDecl, "min_version")
        max == Written(sDecl, "max_version")
    IN  (/\ Validated /\ sCheck.res = "Ok"
         /\ IsReference(min) \/ IsReference(max)
         /\ min = Absent \/ IsReference(min) \/ IsIntConst(min)
         /\ max = Absent \/ IsReference(max) \/ IsIntConst(max)) =>
            IF max = Absent
            THEN ResolvedBound(min) >= 0
            ELSE ResolvedBound(max) >= ResolvedBound(min)

----------------------------------------------------------------------------
(* Claims about the envelope (checked under SpecEnvelope) *)

\* the supported versions an envelope declares; without min_version the
\* minimum is 0
MinSupported ==
    IF sDecl.min_version = NoExpr THEN 0 ELSE ParseDefault(sDecl.min_version.value)
MaxSupported == ParseDefault(sDecl.max_version.value)

\* C24: the bound validation of a field applies to the supported version
\* range of an envelope: an envelope whose max supported version is below
\* its min supported version, or whose min supported version is negative
\* with no max, is rejected when it is defined, so that every accepted
\* envelope has 0 <= min_supported_version <= max_supported_version (as the
\* fetch request has, with 0 and 10).
C24_EnvelopeRangeValidated ==
    sCheck # NotYet =>
        /\ (sDecl.max_version # NoExpr /\ MaxSupported < MinSupported) =>
                sCheck = InvalidMinMaxOrdering
        /\ (sDecl.max_version = NoExpr /\ MinSupported < 0) =>
                sCheck = NegativeMinVersion
        /\ sCheck.res = "Ok" =>
                /\ 0 <= MinSupported
                /\ sDecl.max_version # NoExpr => MinSupported <= MaxSupported

----------------------------------------------------------------------------
(* Claims about the gated codec (checked under SpecCodec) *)

\* the value of a bound, as the claims read it: a constant, a named
\* constant, the result of a function, or dflt without a bound
BoundOf(bound, dflt) ==
    CASE bound = NoExpr -> dflt
      [] bound.kind = "Int" -> bound.value
      [] bound.kind = "Lit" -> ConstValue(bound.ident).value
      [] OTHER -> FnValue(bound.ident).value

\* the field is PRESENT at version v
Present(attrs, v) ==
    /\ BoundOf(attrs.min_version, 0) <= v
    /\ attrs.max_version # NoExpr => v <= BoundOf(attrs.max_version, 0)

Encoded == eSteps # <<>>
Decoded == dResult # NotYet

\* C1: at every version v a field's encode or decode is executed iff
\* min <= v <= max when a max_version is declared and iff v >= min when
\* none is; both bounds are inclusive.
C1_ExecutedIffInRange ==
    /\ \A i \in 1..Len(eSteps) :
            eSteps[i].executed <=> Present(cSchema[i].attrs, eVersion)
    /\ \A i \in 1..Len(dSteps) :
            dSteps[i].executed <=> Present(cSchema[i].attrs, dVersion)

\* a field with min 1 and max 2 was encoded at its upper bound, and skipped
\* by the decode one version above it
C1_Witness ==
    /\ Decoded
    /\ cSchema[1].attrs.min_version = PropInt(1)
    /\ cSchema[1].attrs.max_version = PropInt(2)
    /\ eVersion = 2 /\ eSteps[1].executed
    /\ dVersion = 3 /\ ~dSteps[1].executed

\* two values of a type agree on everything PRESENT at version v
RECURSIVE EqualPresent(_, _, _, _)
EqualPresent(ty, a, b, v) ==
    CASE ty.k = "struct" ->
            \A i \in 1..Len(ty.fields) :
                Present(ty.fields[i].attrs, v) =>
                    EqualPresent(ty.fields[i].ty, a[i], b[i], v)
      [] ty.k = "vec" ->
            /\ Len(a) = Len(b)
            /\ \A i \in 1..Len(a) : EqualPresent(ty.elem, a[i], b[i], v)
      [] OTHER -> a = b

\* C2: encoding a structure at v and decoding the bytes at the same v
\* succeeds, gives back the original value of every PRESENT field, and
\* consumes exactly the bytes written.
C2_RoundTrip ==
    (Decoded /\ dVersion = eVersion) =>
        /\ dResult.res = "Ok"
        /\ dPos = Len(eBuf)
        /\ EqualPresent(StructTy(cSchema), dTarget, eValue, eVersion)

\* the fetch request was encoded and decoded at version 5, where
\* some of its fields, and of the fields of its partitions, are absent
C2_Witness ==
    /\ Decoded
    /\ cSchema = KfFetchRequest
    /\ eVersion = 5 /\ dVersion = 5
    /\ eValue = ValueB(StructTy(KfFetchRequest))
    /\ dFresh
    /\ dPos = Len(eBuf) /\ dPos > 0
    /\ dTarget[5] = eValue[5]
    /\ dTarget[6] # eValue[6]

\* the fields of a structure that are PRESENT at version v
RECURSIVE PresentIndexes(_, _, _)
PresentIndexes(fields, v, i) ==
    IF i > Len(fields) THEN <<>>
    ELSE IF Present(fields[i].attrs, v)
    THEN <<i>> \o PresentIndexes(fields, v, i + 1)
    ELSE PresentIndexes(fields, v, i + 1)

\* the structure as if the fields ABSENT at v were not declared
WithoutAbsent(fields, v) ==
    [j \in 1..Len(PresentIndexes(fields, v, 1)) |-> fields[PresentIndexes(fields, v, 1)[j]]]
ValueWithoutAbsent(fields, value, v) ==
    [j \in 1..Len(PresentIndexes(fields, v, 1)) |-> value[PresentIndexes(fields, v, 1)[j]]]

C4_MinOnlyUnboundedAbove ==
    /\ \A i \in 1..Len(eSteps) :
            (cSchema[i].attrs.max_version = NoExpr
                /\ cSchema[i].attrs.min_version # NoExpr
                /\ cSchema[i].attrs.min_version.kind = "Int") =>
                /\ eVersion < cSchema[i].attrs.min_version.value => ~eSteps[i].executed
                /\ eVersion >= cSchema[i].attrs.min_version.value => eSteps[i].executed
    /\ \A i \in 1..Len(dSteps) :
            (cSchema[i].attrs.max_version = NoExpr
                /\ cSchema[i].attrs.min_version # NoExpr
                /\ cSchema[i].attrs.min_version.kind = "Int") =>
                /\ dVersion < cSchema[i].attrs.min_version.value => ~dSteps[i].executed
                /\ dVersion >= cSchema[i].attrs.min_version.value => dSteps[i].executed
    /\ (Encoded /\ cSchema = KfFetchRequest) =>
            (eSteps[5].executed <=> eVersion \in 4..I16_MAX)

\* isolation_level was written at the largest int16 version and skipped by
\* a decode at version 3
C4_Witness ==
    /\ Decoded
    /\ cSchema = KfFetchRequest
    /\ cSchema[5].name = "isolation_level"
    /\ eVersion = I16_MAX /\ eSteps[5].executed /\ eSteps[5].after = eSteps[5].before + 1
    /\ dVersion = 3 /\ Len(dSteps) >= 5 /\ ~dSteps[5].executed

\* C5: after a decode at a version where a field is ABSENT the field holds
\* its declared default, or the zero value of its type without one; never
\* a value from the wire or from a previous decode.
C5_AbsentHoldsDefault ==
    (Decoded /\ dResult.res = "Ok") =>
        \A i \in 1..Len(cSchema) :
            ~Present(cSchema[i].attrs, dVersion) =>
                dTarget[i] = DefaultValue(cSchema[i].ty, cSchema[i].attrs)

\* C11: a field that declares no min_version is gated as if it declared
\* min_version = 0: its encode or decode is executed at every version >= 0
\* up to its max_version, at no negative version, and the bound that is not
\* declared renders as the token 0_i16.
C11_NoMinIsZero ==
    /\ \A i \in 1..Len(cSchema) :
            cSchema[i].attrs.min_version = NoExpr =>
                prop_attrs_type_value(cSchema[i].attrs.min_version)
                    = <<LiteralTok(<<0>>, "i16")>>
    /\ \A i \in 1..Len(eSteps) :
            cSchema[i].attrs.min_version = NoExpr =>
                /\ eSteps[i].executed <=>
                        /\ eVersion >= 0
                        /\ cSchema[i].attrs.max_version # NoExpr =>
                                eVersion <= BoundOf(cSchema[i].attrs.max_version, 0)
                /\ eSteps[i].executed <=>
                        Present([cSchema[i].attrs EXCEPT !.min_version = PropInt(0)],
                                eVersion)
    /\ \A i \in 1..Len(dSteps) :
            cSchema[i].attrs.min_version = NoExpr =>
                /\ dSteps[i].executed <=>
                        /\ dVersion >= 0
                        /\ cSchema[i].attrs.max_version # NoExpr =>
                                dVersion <= BoundOf(cSchema[i].attrs.max_version, 0)
                /\ dSteps[i].executed <=>
                        Present([cSchema[i].attrs EXCEPT !.min_version = PropInt(0)],
                                dVersion)

\* a field with max_version = 1 and no min_version was written at version
\* 0 and skipped by a decode at version -1
C11_Witness ==
    /\ Decoded
    /\ cSchema[1].attrs.min_version = NoExpr
    /\ cSchema[1].attrs.max_version = PropInt(1)
    /\ eVersion = 0 /\ eSteps[1].executed
    /\ dVersion = -1 /\ ~dSteps[1].executed

\* C17: encode and decode visit the fields in declaration order: the bytes
\* of the fields PRESENT at the version follow one another in the buffer in
\* the order the fields are declared, each field's bytes being the encoding
\* of its value, so that for A declared before B all bytes of A precede all
\* bytes of B; a field ABSENT at the version takes no place between them.
C17_DeclarationOrder ==
    /\ Encoded =>
            /\ eSteps[1].before = 0
            /\ eSteps[Len(eSteps)].after = Len(eBuf)
            /\ \A i \in 1..(Len(eSteps) - 1) : eSteps[i + 1].before = eSteps[i].after
            /\ \A i \in 1..Len(eSteps) :
                    Present(cSchema[i].attrs, eVersion) =>
                        SubSeq(eBuf, eSteps[i].before + 1, eSteps[i].after)
                            = EncodeType(cSchema[i].ty, eValue[i], eVersion, cTrace).buf
            /\ \A i, j \in 1..Len(eSteps) :
                    (i < j /\ Present(cSchema[i].attrs, eVersion)
                           /\ Present(cSchema[j].attrs, eVersion)) =>
                        eSteps[i].after <= eSteps[j].before
    /\ Decoded =>
            /\ dSteps[1].before = 0
            /\ dSteps[Len(dSteps)].after = dPos
            /\ \A i \in 1..(Len(dSteps) - 1) : dSteps[i + 1].before = dSteps[i].after
            /\ \A i, j \in 1..Len(dSteps) :
                    (i < j /\ Present(cSchema[i].attrs, dVersion)
                           /\ Present(cSchema[j].attrs, dVersion)) =>
                        dSteps[i].after <= dSteps[j].before

\* a partition was written and read at version 5: fetch_offset follows
\* partition_index at byte 4, current_leader_epoch being absent, and
\* max_bytes comes last
C17_Witness ==
    /\ Decoded
    /\ cSchema = FetchPartition
    /\ eVersion = 5 /\ dVersion = 5
    /\ eValue = ValueB(StructTy(FetchPartition))
    /\ eSteps[1].after = 4 /\ eSteps[3].before = 4 /\ eSteps[3].after = 12
    /\ eSteps[5].before = 20 /\ eSteps[5].after = 24
    /\ dSteps[3].before = 4 /\ dSteps[5].after = 24

\* the event a skipped field is specified to emit: its name, the version
\* and the bound or bounds that exclude it
IsSkipEvent(ev, field, v) ==
    /\ ev.field = field.name
    /\ ev.version = v
    /\ ev.min = BoundOf(field.attrs.min_version, 0)
    /\ ("max" \in DOMAIN ev) <=> (field.attrs.max_version # NoExpr)
    /\ field.attrs.max_version # NoExpr => ev.max = BoundOf(field.attrs.max_version, 0)

\* the gates that find their field ABSENT when a value is walked at v
RECURSIVE AbsentGates(_, _, _), AbsentGatesOf(_, _, _, _), AbsentGatesIn(_, _, _, _)
AbsentGates(ty, value, v) ==
    CASE ty.k = "struct" -> AbsentGatesOf(ty.fields, value, v, 1)
      [] ty.k = "vec" -> AbsentGatesIn(ty.elem, value, v, 1)
      [] OTHER -> 0
AbsentGatesOf(fields, value, v, i) ==
    IF i > Len(fields) THEN 0
    ELSE (IF Present(fields[i].attrs, v)
          THEN AbsentGates(fields[i].ty, value[i], v)
          ELSE 1)
            + AbsentGatesOf(fields, value, v, i + 1)
AbsentGatesIn(elem, values, v, i) ==
    IF i > Len(values) THEN 0
    ELSE AbsentGates(elem, values[i], v) + AbsentGatesIn(elem, values, v, i + 1)

\* C18: with trace, each evaluation of a gate that finds its field ABSENT
\* emits exactly one skip event with the field's name, the version and the
\* excluding bounds (min alone without a max_version, min and max with
\* one), and an evaluation that finds the field PRESENT emits none; without
\* trace no event is emitted at all.
C18_SkipEvents ==
    /\ ~cTrace => eEvents = <<>> /\ dEvents = <<>>
    /\ \A i \in 1..Len(eSteps) :
            /\ Present(cSchema[i].attrs, eVersion) => eSteps[i].events = <<>>
            /\ (cTrace /\ ~Present(cSchema[i].attrs, eVersion)) =>
                    /\ Len(eSteps[i].events) = 1
                    /\ IsSkipEvent(eSteps[i].events[1], cSchema[i], eVersion)
    /\ \A i \in 1..Len(dSteps) :
            /\ Present(cSchema[i].attrs, dVersion) => dSteps[i].events = <<>>
            /\ (cTrace /\ ~Present(cSchema[i].attrs, dVersion)) =>
                    /\ Len(dSteps[i].events) = 1
                    /\ IsSkipEvent(dSteps[i].events[1], cSchema[i], dVersion)
    /\ (cTrace /\ Encoded) =>
            Len(eEvents) = AbsentGates(StructTy(cSchema), eValue, eVersion)
    /\ (cTrace /\ Decoded /\ dResult.res = "Ok") =>
            Len(dEvents) = AbsentGates(StructTy(cSchema), dTarget, dVersion)

\* with trace, a partition written at version 5 emitted one event, for
\* current_leader_epoch with its min 9, and its decode at version 10
\* emitted none
C18_Witness ==
    /\ cTrace
    /\ Decoded
    /\ cSchema = FetchPartition
    /\ eVersion = 5 /\ dVersion = 10
    /\ Len(eEvents) = 1
    /\ eEvents[1].field = "current_leader_epoch"
    /\ eEvents[1].version = 5
    /\ eEvents[1].min = 9
    /\ "max" \notin DOMAIN eEvents[1]
    /\ dEvents = <<>>

----------------------------------------------------------------------------
(* Claims about a buffer cut short (checked under SpecTruncated) *)

\* every field of the structure is a fixed-width integer
Flat(fields) == \A i \in 1..Len(fields) : fields[i].ty.k = "int"

\* the bytes the fields PRESENT at version v take, in a flat structure
RECURSIVE Needed(_, _, _)
Needed(fields, v, i) ==
    IF i > Len(fields) THEN 0
    ELSE (IF Present(fields[i].attrs, v) THEN fields[i].ty.width ELSE 0)
            + Needed(fields, v, i + 1)

----------------------------------------------------------------------------
(* Claims about concurrent calls (checked under SpecConcurrent) *)

\* the call is where the same call is after as many fields when it runs
\* alone
AsAlone(call) ==
    LET n == call.next - 1
    IN  IF call.dir = "encode"
        THEN LET alone == EncodeStruct(cSchema, call.value, call.version, FALSE)
             IN  /\ call.ok
                 /\ call.buf = SubSeq(alone.buf, 1, IF n = 0 THEN 0 ELSE alone.steps[n].after)
                 /\ CallDone(call) => call.buf = alone.buf
        ELSE LET alone == DecodeStruct(cSchema, DefaultStruct(cSchema), call.src,
                                       call.version, FALSE)
             IN  /\ n <= Len(alone.steps)
                 /\ call.pos = IF n = 0 THEN 0 ELSE alone.steps[n].after
                 /\ CallDone(call) =>
                        /\ call.ok = alone.ok
                        /\ call.value = alone.value
                        /\ call.pos = alone.pos

----------------------------------------------------------------------------
(* Claims about the cluster checker (checked under SpecChecker) *)

\* the checks the builder calls made on a checker add, in order
RECURSIVE ChecksAdded(_)
ChecksAdded(added) ==
    IF added = <<>> THEN <<>>
    ELSE LET before == ChecksAdded(SubSeq(added, 1, Len(added) - 1))
             last == added[Len(added)]
         IN  CASE last[1] = "with_check" -> before \o <<last[2]>>
               [] last[1] = "with_preflight_checks" ->
                    before \o <<"LoadableConfig", "K8Version", "HelmVersion", "SysChart",
                                "CreateServicePermission", "CreateCrdPermission",
                                "CreateServiceAccountPermission", "LoadBalancer">>
               [] last[1] = "with_k8_checks" ->
                    before \o <<"LoadableConfig", "HelmVersion", "SysChart", "LoadBalancer">>
               [] OTHER ->
                    before \o <<"HelmVersion", "K8Version", "LoadableConfig", "SysChart">>

\* C20: run_wait performs every check of the checker exactly once, one
\* after the other in the order the checks were added, and returns one
\* result per check in that order: the result that check came back with; a
\* check that fails or errors does not stop the later checks, and an empty
\* checker returns an empty list.
C20_RunWaitPerformsAll ==
    /\ \A i \in DOMAIN kPerformed :
            /\ kPerformed[i].index = i
            /\ kPerformed[i].check = ChecksAdded(kAdded)[i]
    /\ kRun = "run_wait" /\ kPc = "returned" =>
            /\ Len(kPerformed) = Len(ChecksAdded(kAdded))
            /\ Len(kResults) = Len(ChecksAdded(kAdded))
            /\ \A i \in DOMAIN kResults : kResults[i] = kPerformed[i].result
            /\ kAdded = <<>> => kResults = <<>>

\* the first of two added checks came back with an error, and the run
\* went on to the second and returned both results
C20_Witness ==
    /\ kRun = "run_wait" /\ kPc = "returned"
    /\ kAdded = << <<"with_check", "LoadBalancer">>, <<"with_check", "AlreadyInstalled">> >>
    /\ Len(kPerformed) = 2
    /\ kPerformed[1].check = "LoadBalancer" /\ kPerformed[2].check = "AlreadyInstalled"
    /\ kResults = <<CheckErr, Pass>>

\* a result that ends run_wait_and_fix: an error, a failure that is not
\* recoverable, or a recoverable failure whose fix failed
Stops(i) ==
    \/ kPerformed[i].result \in {CheckErr, FailUnrecoverable}
    \/ /\ kPerformed[i].result = FailAutoRecoverable
       /\ \E f \in DOMAIN kFixes : kFixes[f].index = i /\ kFixes[f].result.res = "Err"

IsPass(result) == result.res = "Ok" /\ result.value.status = "Pass"

\* C21: run_wait_and_fix returns upon the first check failure: the results
\* are one per performed check, for a prefix of the checks in their order;
\* every result before the last is a Pass; once a check ended in an error,
\* in a failure that is not recoverable, or in a recoverable failure whose
\* fix failed, the run has returned, no later check is performed and the
\* result of that check is the last one.
C21_ReturnsUponFirstFailure ==
    kRun = "run_wait_and_fix" =>
        /\ Len(kResults) = Len(kPerformed)
        /\ Len(kPerformed) <= Len(kChecks)
        /\ \A i \in DOMAIN kPerformed :
                /\ kPerformed[i].index = i
                /\ kPerformed[i].check = kChecks[i]
                /\ i < Len(kResults) => IsPass(kResults[i])
                /\ Stops(i) =>
                        /\ kPc = "returned"
                        /\ i = Len(kPerformed)
                        /\ ~IsPass(kResults[i])
        /\ kPc = "returned" =>
                \/ Len(kPerformed) = Len(kChecks)
                \/ Stops(Len(kPerformed))

\* the first of two checks passed, the second came back with an error while
\* a third was still to come: the run returned the two results
C21_Witness ==
    /\ kRun = "run_wait_and_fix" /\ kPc = "returned"
    /\ Len(kChecks) > 2
    /\ kResults = <<Pass, CheckErr>>
    /\ Len(kPerformed) = 2

\* C27: in run_wait_and_fix the fix function is called only for a check that
\* failed as AutoRecoverable, exactly once for it, and the check is not
\* performed again; when the fix succeeds the recorded result is a Pass with
\* the message "Fixed: " followed by the text of the failure and the next
\* check runs; when the fix fails with e the recorded result is
\* Fail(Unrecoverable(e)) and the run stops.
C27_FixOncePerRecoverable ==
    kRun = "run_wait_and_fix" =>
        /\ \A f \in DOMAIN kFixes :
                LET i == kFixes[f].index
                IN  /\ i \in DOMAIN kPerformed
                    /\ kPerformed[i].result = FailAutoRecoverable
                    /\ kFixes[f].failed = kPerformed[i].result
                    /\ kFixes[f].performed = Len(SelectSeq(kPerformed,
                            LAMBDA p : p.index <= i))
                    /\ \A g \in DOMAIN kFixes : kFixes[g].index = i => g = f
                    /\ kFixes[f].result.res = "Ok" =>
                            /\ kResults[i] = Ok([status |-> "Pass",
                                    message |-> <<"Fixed: ", Display(kPerformed[i].result)>>])
                            /\ kPc = "returned" => Len(kPerformed) = Len(kChecks)
                                                     \/ Len(kPerformed) > i
                    /\ kFixes[f].result.res = "Err" =>
                            /\ kResults[i] = Ok([status |-> "Fail", failed |-> "Unrecoverable",
                                                 check |-> kFixes[f].result.msg])
                            /\ kPc = "returned"
                            /\ Len(kPerformed) = i
        /\ \A i \in DOMAIN kPerformed :
                /\ Cardinality({j \in DOMAIN kPerformed : kPerformed[j].index = i}) = 1
                /\ kPerformed[i].result = FailAutoRecoverable =>
                        \E f \in DOMAIN kFixes : kFixes[f].index = i

\* the first check failed as AutoRecoverable and was fixed, and the run went
\* on to the second check
C27_Witness ==
    /\ kRun = "run_wait_and_fix"
    /\ Len(kFixes) = 1 /\ kFixes[1].index = 1 /\ kFixes[1].result = Ok("unit")
    /\ Len(kPerformed) = 2
    /\ kResults = <<Fixed(Display(FailAutoRecoverable)), Pass>>

----------------------------------------------------------------------------
(* Claims about the runs with progress (checked under SpecProgress) *)

\* the results run_wait returns for the checks performed: one per check, in
\* order, the result the check came back with
RunWaitResults == [i \in DOMAIN kPerformed |-> kPerformed[i].result]

\* C22: run_with_progress delivers on its channel exactly the results that
\* run_wait would return for the same checks, one per check and in the same
\* order; when the receiver keeps receiving, every result is eventually
\* delivered and the channel is then closed, so that the receive loop ends.
C22_ProgressDeliversAll ==
    /\ [](kRun = "run_with_progress" =>
            /\ \A i \in DOMAIN kPerformed :
                    kPerformed[i].index = i /\ kPerformed[i].check = kChecks[i]
            /\ kReceiver # "dropped" =>
                    /\ Len(kDelivered) + Len(kChannel) \in {Len(kPerformed), Len(kPerformed) - 1}
                    /\ kDelivered \o kChannel =
                            SubSeq(RunWaitResults, 1, Len(kDelivered) + Len(kChannel))
            /\ kReceiver = "ended" =>
                    /\ Len(kPerformed) = Len(kChecks)
                    /\ kDelivered = RunWaitResults)
    /\ (kRun = "run_with_progress") ~> (kReceiver \in {"ended", "dropped"})

\* the two checks of a checker were performed, the first with an error, both
\* results were received in order and the receive loop ended
C22_Witness ==
    /\ kRun = "run_with_progress"
    /\ kReceiver = "ended"
    /\ Len(kChecks) = 2
    /\ kDelivered = <<CheckErr, Pass>>

\* the outcome of the fix awaited for the i-th check, if one was
FixOf(i) ==
    IF \E f \in DOMAIN kFixes : kFixes[f].index = i
    THEN kFixes[CHOOSE f \in DOMAIN kFixes : kFixes[f].index = i].result
    ELSE NotYet

\* the list run_wait_and_fix returns when the checks come back as the
\* performed checks did, from the i-th check on
RECURSIVE RunWaitAndFixResults(_)
RunWaitAndFixResults(i) ==
    IF i > Len(kPerformed) THEN <<>>
    ELSE LET turn == and_fix_match(kPerformed[i].result, FixOf(i))
         IN  IF turn.returns THEN <<turn.pushed>>
             ELSE <<turn.pushed>> \o RunWaitAndFixResults(i + 1)

\* C28: for the same checks, outcomes and fix outcomes, the results
\* delivered by run_and_fix_with_progress are the list run_wait_and_fix
\* returns, in order; after a recoverable failure whose fix failed no
\* further check is performed and no further result is delivered.
C28_ProgressEqualsRunWaitAndFix ==
    kRun = "run_and_fix_with_progress" =>
        /\ kReceiver # "dropped" =>
                /\ Len(kDelivered) + Len(kChannel) <= Len(RunWaitAndFixResults(1))
                /\ kDelivered \o kChannel =
                        SubSeq(RunWaitAndFixResults(1), 1, Len(kDelivered) + Len(kChannel))
        /\ kReceiver = "ended" => kDelivered = RunWaitAndFixResults(1)
        /\ \A f \in DOMAIN kFixes :
                kFixes[f].result.res = "Err" => Len(kPerformed) = kFixes[f].index

----------------------------------------------------------------------------
(* Claims about the load balancer check (checked under SpecLoadBalancer) *)

\* C29: wait_for_service_exist always terminates after at most 10 retrieve
\* attempts: it returns the address at the first attempt that finds a load
\* balancer IP or host, it returns an error at once on the first client
\* error other than NOT_FOUND, and it returns None after exactly 10
\* attempts that each found no address or NOT_FOUND.
C29_WaitTerminates ==
    /\ [](/\ Len(lbAttempts) <= 10
          /\ \A i \in DOMAIN lbAttempts :
                /\ lbAttempts[i] = "Address" =>
                        i = Len(lbAttempts) /\ lbWait = Ok([some |-> "addr"])
                /\ lbAttempts[i] = "OtherError" =>
                        i = Len(lbAttempts) /\ lbWait.res = "Err"
          /\ (lbWait.res = "Ok" /\ "none" \in DOMAIN lbWait.value) <=>
                /\ lbPc \in {"waited", "returned"}
                /\ Len(lbAttempts) = 10
                /\ \A i \in DOMAIN lbAttempts : lbAttempts[i] \in {"NoAddress", "NOT_FOUND"}
          /\ (lbWait.res = "Ok" /\ "some" \in DOMAIN lbWait.value) =>
                lbAttempts # <<>> /\ lbAttempts[Len(lbAttempts)] = "Address")
    /\ (lbPc = "wait_for_service_exist") ~> (lbWait # NotYet)

\* ten attempts found no address or NOT_FOUND, and None was returned
C29_Witness ==
    /\ Len(lbAttempts) = 10
    /\ lbAttempts[1] = "NOT_FOUND" /\ lbAttempts[10] = "NoAddress"
    /\ lbWait = Ok([none |-> TRUE])

\* C30: on every path on which check_load_balancer_status returns after
\* creating the dummy service, it has issued the delete of the service
\* before returning, including the path where the waiting ends with a
\* client error.
C30_DummyServiceDeleted ==
    (lbPc = "returned" /\ \E i \in DOMAIN lbCommands : lbCommands[i] = "create") =>
        \E j \in DOMAIN lbCommands : lbCommands[j] \in {"delete", "delete (not run)"}

----------------------------------------------------------------------------
(* Claims about tuple structures (checked under SpecTuple) *)

\* the structure with named fields that declares the bounds of the tuple
\* structure
Named(fields) ==
    [i \in DOMAIN fields |->
        Field(IF i = 1 THEN "gated" ELSE "tail", fields[i].ty, fields[i].attrs)]

\* an event without the name of its field
Nameless(event) == [k \in DOMAIN event \ {"field"} |-> event[k]]

\* the steps of a call, each event without the name of its field
NamelessSteps(steps) ==
    [i \in DOMAIN steps |->
        [steps[i] EXCEPT !.events = [j \in DOMAIN @ |-> Nameless(@[j])]]]

NamelessEvents(events) == [j \in DOMAIN events |-> Nameless(events[j])]

\* C25: an unnamed (tuple) field and a named field with the same
\* min_version, max_version and version make the same PRESENT/ABSENT
\* decision, are validated alike and touch the buffer identically; they
\* differ only in that the skip event of the unnamed field carries no field
\* name.
C25_UnnamedAsNamed ==
    /\ sCheck # NotYet =>
            LET named == validate_versions_tokens(cSchema[1].attrs.min_version,
                                                  cSchema[1].attrs.max_version, "gated")
                unnamed == validate_versions_tokens(cSchema[1].attrs.min_version,
                                                    cSchema[1].attrs.max_version, NoName)
            IN  /\ sCheck = ConstAssert(named)
                /\ unnamed = [named EXCEPT !.field = NoName]
    /\ eSteps # <<>> =>
            LET named == EncodeStruct(Named(cSchema), eValue, eVersion, cTrace)
            IN  /\ eBuf = named.buf
                /\ eSteps = NamelessSteps(named.steps)
                /\ eEvents = NamelessEvents(named.events)
                /\ \A i \in DOMAIN eEvents : "field" \notin DOMAIN eEvents[i]
                /\ \A i \in DOMAIN named.events : "field" \in DOMAIN named.events[i]
    /\ dResult # NotYet =>
            \A target \in {DefaultStruct(cSchema)} \cup Values(cSchema) :
                LET unnamed == DecodeStruct(cSchema, target, dSrc, dVersion, cTrace)
                    named == DecodeStruct(Named(cSchema), target, dSrc, dVersion, cTrace)
                IN  (unnamed.value = dTarget /\ unnamed.steps = dSteps) =>
                        /\ named.ok = unnamed.ok
                        /\ named.value = dTarget
                        /\ named.pos = dPos
                        /\ NamelessSteps(named.steps) = dSteps
                        /\ NamelessEvents(named.events) = dEvents

\* a tuple structure whose first field has the bounds 1..=2 was encoded
\* with trace at version 3: the field was skipped, and the event of the
\* skip names no field
C25_Witness ==
    /\ sCheck = Ok("compiled")
    /\ cSchema[1].attrs.min_version = PropInt(1)
    /\ cSchema[1].attrs.max_version = PropInt(2)
    /\ cTrace
    /\ eVersion = 3
    /\ Len(eBuf) = 2
    /\ Len(eEvents) = 1 /\ "field" \notin DOMAIN eEvents[1]
    /\ dResult = Ok("decoded") /\ dVersion = 3 /\ dPos = 2
    /\ Len(dEvents) = 1 /\ "field" \notin DOMAIN dEvents[1]

----------------------------------------------------------------------------
(* Claims about the ignorable flag (checked under SpecCodec) *)

\* the fields of a structure with the ignorable flag of every field, at
\* every depth, set (flag = Some(true)) or left out (flag = None)
RECURSIVE IgnorableTy(_, _)
IgnorableFields(fields, flag) ==
    [i \in DOMAIN fields |->
        Field(fields[i].name, IgnorableTy(fields[i].ty, flag),
              [fields[i].attrs EXCEPT !.ignorable = flag])]
IgnorableTy(ty, flag) ==
    CASE ty.k = "vec" -> VecTy(IgnorableTy(ty.elem, flag))
      [] ty.k = "struct" ->
            StructTy([i \in DOMAIN ty.fields |->
                        Field(ty.fields[i].name, IgnorableTy(ty.fields[i].ty, flag),
                              [ty.fields[i].attrs EXCEPT !.ignorable = flag])])
      [] OTHER -> ty

IgnorableFlags == {NoExpr, [kind |-> "Some", value |-> TRUE]}

\* C26: the ignorable flag has no effect on the engine: a structure and the
\* structure that differs from it only in the ignorable flags of its fields
\* make the same decisions and produce the same bytes, the same decoded
\* values and the same errors for every input.
C26_IgnorableHasNoEffect ==
    \A flag \in IgnorableFlags :
        LET other == IgnorableFields(cSchema, flag)
        IN  /\ eSteps # <<>> =>
                    EncodeStruct(other, eValue, eVersion, cTrace) =
                        [buf |-> eBuf, steps |-> eSteps, events |-> eEvents]
            /\ dResult # NotYet =>
                    \A target \in {DefaultStruct(cSchema)} \cup Values(cSchema) :
                        LET own == DecodeStruct(cSchema, target, dSrc, dVersion, cTrace)
                        IN  (own.value = dTarget /\ own.steps = dSteps) =>
                                DecodeStruct(other, target, dSrc, dVersion, cTrace) = own

\* the fetch partition, whose current_leader_epoch is ignorable with
\* min_version 9, was encoded at version 5 and decoded at version 9: the
\* field was left out of the bytes and the decode ran out of bytes
C26_Witness ==
    /\ cSchema = FetchPartition
    /\ cSchema[2].attrs.ignorable # NoExpr
    /\ eVersion = 5 /\ ~eSteps[2].executed /\ Len(eBuf) = 24
    /\ dVersion = 9 /\ dSteps[2].executed
    /\ dResult = UnexpectedEof
====
